---- MODULE Spec2Model ----
(***************************************************************************)
(* go-kvfile: the key/value archive writer (batch Write / WriteIterator,   *)
(* progressive Writer, shared WriteIndex) and the random-access Reader     *)
(* (BuildReader, ReadIndexEntry, the searches, value access, prefix scan). *)
(* Byte strings are sequences of numbers 0..255; the archive is the byte   *)
(* sequence the sink holds.                                                *)
(***************************************************************************)
EXTENDS Integers, Sequences, FiniteSets, TLC

VARIABLES
    out,     \* the sink: every byte it has accepted, in order
    idx,     \* Writer.idx: the index entries recorded so far
    pos,     \* Writer.pos
    fin,     \* Writer.fin
    api,     \* which writer has used the sink: "none", "Write" or "Writer";
             \* "stream" for bytes from elsewhere and "legacy" for an archive
             \* of the first revision's Write
    input,   \* the (key, value) pairs supplied so far, in call order, each
             \* with the way the copy of its value ended
    wres,    \* result of the completing writer call: "none", "nil" or an error
    reader,  \* the Reader built on the sink's bytes, or NoReader
    ret,     \* what the last call returned
    mtx,     \* Writer.mtx: the goroutine holding it, or 0 when unlocked
    gor      \* the WriteValue call of each goroutine sharing the Writer

vars == <<out, idx, pos, fin, api, input, wres, reader, ret, mtx, gor>>

(* ------------------------------ bounds -------------------------------- *)

\* The room of a sink that never fails.
NoFault == -1

\* Most (key, value) pairs one run supplies to a writer.
MaxKeys == 3

\* Keys a caller supplies or looks up; the empty key is one of them.
Keys == {<<>>, <<1>>, <<1, 1>>, <<1, 2>>, <<2>>}

\* Values the i-th supplied pair may carry: empty or two bytes, different
\* for different i.
Values(i) == {<<>>, <<110 + i, 120 + i>>}

\* The lists of n keys and of n values a caller may supply.
KeyLists(n) == [1..n -> Keys]

ValueLists(n) == {vals \in [1..n -> UNION {Values(i) : i \in 1..n}] :
                     \A i \in 1..n : vals[i] \in Values(i)}

\* Keys supplied to the Writer in the runs with failing copies, and the most
\* pairs such a run supplies.
FaultKeys == {<<1>>, <<2>>}

MaxFaultKeys == 2

\* Keys the key iterator of a batch write that may fail returns.
BatchKeys == FaultKeys \cup {<<>>}

\* Most entries of an archive the searches run on.
MaxEntries == 5

\* Keys such an archive is made of, and the keys and prefixes looked up.
ArchiveKeys == {<<1>>, <<1, 1>>, <<1, 1, 2>>, <<1, 2>>, <<2>>, <<2, 1>>, <<3, 1>>}

Probes == ArchiveKeys \cup {<<>>, <<3>>}

\* Sink capacities at which Close is made to fail (NoFault: it is not).
CloseRooms == {NoFault, 0, 3, 9, 20}

\* A sink: each Write takes at most `accept` bytes of what it is given
\* (NoFault: all of it) and returns their number; the Write that would take
\* the sink past `room` bytes fails (NoFault: none does); a sink that is
\* `negative` returns the count -1 and no error.
Sink(room, accept, negative) ==
    [room |-> room, accept |-> accept, negative |-> negative]

\* The sink that takes every Write whole and never fails.
Whole == Sink(NoFault, NoFault, FALSE)

\* The sinks Close is made to write the index to: the failing ones, sinks
\* that take one or three bytes at a time, and one returning a negative
\* count.
CloseSinks ==
    {Sink(room, NoFault, FALSE) : room \in CloseRooms}
        \cup {Sink(NoFault, accept, FALSE) : accept \in {1, 3}}
        \cup {Sink(NoFault, NoFault, TRUE)}

(* ------------------------- program constants --------------------------- *)

maxIndexEntrySize == 2048

maxValueSize == 1000000000

(* ------------------------------ results -------------------------------- *)

\* Body applied to v: the result of one call, named and used as a local
\* variable of the code is.
With(v, Body(_)) == Body(v)

(* --------------------------- byte strings ------------------------------ *)

Min(a, b) == IF a < b THEN a ELSE b

\* s[from+1 .. to] in Go's s[from:to]
Slice(s, from, to) == SubSeq(s, from + 1, to)

\* bytes.Compare: -1, 0 or +1 by unsigned byte-lexicographic order: decided
\* by the first byte in which a and b differ, and by their lengths when one
\* is a prefix of the other.
Compare(a, b) ==
    With({k \in 1..Min(Len(a), Len(b)) : a[k] # b[k]}, LAMBDA differ :
        IF differ # {}
        THEN With(CHOOSE k \in differ : \A o \in differ : k <= o, LAMBDA k :
                 IF a[k] < b[k] THEN -1 ELSE 1)
        ELSE IF Len(a) < Len(b) THEN -1
        ELSE IF Len(a) > Len(b) THEN 1
        ELSE 0)

\* bytes.HasPrefix
HasPrefix(s, prefix) ==
    Len(s) >= Len(prefix) /\ SubSeq(s, 1, Len(prefix)) = prefix

\* bytes.Equal
Equal(a, b) == a = b

RECURSIVE InsertStable(_, _)
\* Insert entry e into the key-sorted list s after every entry whose key is
\* not greater: the step of a stable sort.
InsertStable(s, e) ==
    IF s = <<>> THEN <<e>>
    ELSE IF Compare(s[Len(s)].Key, e.Key) <= 0 THEN Append(s, e)
    ELSE Append(InsertStable(SubSeq(s, 1, Len(s) - 1), e), s[Len(s)])

\* A WriteIndex that leaves the entries in the order they were recorded.
SortNone(index) == index

RECURSIVE SortStableFunc(_)
\* slices.SortStableFunc(index, bytes.Compare on Key): the one permutation
\* sorted by key that keeps equal keys in their original order.
SortStableFunc(index) ==
    IF index = <<>> THEN <<>>
    ELSE InsertStable(SortStableFunc(SubSeq(index, 1, Len(index) - 1)),
                      index[Len(index)])

(* ------------------------------ varints -------------------------------- *)

RECURSIVE AppendVarint(_)
\* protobuf_go_lite.AppendVarint / EncodeVarint: base-128, little-endian,
\* continuation bit in the top bit.
AppendVarint(v) ==
    IF v < 128 THEN <<v>> ELSE <<128 + (v % 128)>> \o AppendVarint(v \div 128)

\* protobuf_go_lite.SizeOfVarint
SizeOfVarint(v) == Len(AppendVarint(v))

RECURSIVE ConsumeVarintAt(_, _, _, _)
ConsumeVarintAt(b, i, shift, acc) ==
    IF i > 10 THEN [v |-> 0, n |-> -3]
    ELSE IF i > Len(b) THEN [v |-> 0, n |-> -1]
    ELSE IF b[i] < 128
         THEN IF i = 10 /\ b[i] > 1
              THEN [v |-> 0, n |-> -3]
              ELSE [v |-> acc + b[i] * shift, n |-> i]
    ELSE ConsumeVarintAt(b, i + 1, shift * 128, acc + (b[i] - 128) * shift)

\* protobuf_go_lite.ConsumeVarint: the value and the number of bytes read,
\* n < 0 when the bytes end inside the varint or it is longer than 10 bytes.
ConsumeVarint(b) == ConsumeVarintAt(b, 1, 1, 0)

RECURSIVE AppendUintLE(_, _)
AppendUintLE(v, nbytes) ==
    IF nbytes = 0 THEN <<>>
    ELSE <<v % 256>> \o AppendUintLE(v \div 256, nbytes - 1)

\* A field of four bytes.
AppendUint32(v) == AppendUintLE(v, 4)

\* binary.LittleEndian.AppendUint64(buf[:0], v)
AppendUint64(v) == AppendUintLE(v, 8)

RECURSIVE UintLE(_)
UintLE(b) == IF b = <<>> THEN 0 ELSE Head(b) + 256 * UintLE(Tail(b))

\* binary.LittleEndian.Uint64
Uint64(b) == UintLE(SubSeq(b, 1, 8))

(* ---------------------------- IndexEntry ------------------------------- *)

\* IndexEntry{Key, Offset, Size}
IndexEntry(key, offset, size) == [Key |-> key, Offset |-> offset, Size |-> size]

\* IndexEntry.SizeVT: the length of the marshalled entry.
SizeVT(m) ==
    (IF Len(m.Key) > 0 THEN 1 + Len(m.Key) + SizeOfVarint(Len(m.Key)) ELSE 0)
    + (IF m.Offset # 0 THEN 1 + SizeOfVarint(m.Offset) ELSE 0)
    + (IF m.Size # 0 THEN 1 + SizeOfVarint(m.Size) ELSE 0)

\* The fields MarshalToSizedBufferVT writes, in wire order: key (tag 0x0a,
\* length, bytes), offset (tag 0x10), size (tag 0x18); a zero or empty field
\* is left out.
MarshalFields(m) ==
    (IF Len(m.Key) > 0 THEN <<10>> \o AppendVarint(Len(m.Key)) \o m.Key ELSE <<>>)
    \o (IF m.Offset # 0 THEN <<16>> \o AppendVarint(m.Offset) ELSE <<>>)
    \o (IF m.Size # 0 THEN <<24>> \o AppendVarint(m.Size) ELSE <<>>)

\* IndexEntry.MarshalToSizedBufferVT(buf) with len(buf) = size: the fields
\* are written from the end of buf backwards, the bytes before them stay 0.
MarshalToSizedBufferVT(m, size) ==
    [i \in 1..(size - Len(MarshalFields(m))) |-> 0] \o MarshalFields(m)

RECURSIVE DecodeVarint(_, _, _, _, _)
\* The varint loop of UnmarshalVT, reading dAtA from 0-based index i:
\* the value, the index after it, and the error.
DecodeVarint(d, i, k, shift, acc) ==
    IF k > 10 THEN [v |-> 0, next |-> i, err |-> "ErrIntOverflow"]
    ELSE IF i >= Len(d) THEN [v |-> 0, next |-> i, err |-> "ErrUnexpectedEOF"]
    ELSE IF d[i + 1] < 128
         THEN [v |-> acc + d[i + 1] * shift, next |-> i + 1, err |-> "nil"]
    ELSE DecodeVarint(d, i + 1, k + 1, shift * 128, acc + (d[i + 1] - 128) * shift)

\* protobuf_go_lite.Skip: the length of the unknown field that starts at
\* 0-based index i (tag included), or -1 when it cannot be skipped.
Skip(d, i) ==
    LET tag == DecodeVarint(d, i, 1, 1, 0)
        wt == tag.v % 8
    IN  IF tag.err # "nil" THEN -1
        ELSE IF wt = 0
             THEN LET x == DecodeVarint(d, tag.next, 1, 1, 0)
                  IN  IF x.err # "nil" THEN -1 ELSE x.next - i
        ELSE IF wt = 1 THEN tag.next + 8 - i
        ELSE IF wt = 2
             THEN LET x == DecodeVarint(d, tag.next, 1, 1, 0)
                  IN  IF x.err # "nil" THEN -1 ELSE x.next + x.v - i
        ELSE IF wt = 5 THEN tag.next + 4 - i
        ELSE -1

RECURSIVE UnmarshalFrom(_, _, _)
\* The field loop of IndexEntry.UnmarshalVT from 0-based index iNdEx, m being
\* the entry decoded so far.
UnmarshalFrom(dAtA, iNdEx, m) ==
    IF iNdEx >= Len(dAtA) THEN [m EXCEPT !.err = "nil"]
    ELSE
    LET wire == DecodeVarint(dAtA, iNdEx, 1, 1, 0)
        fieldNum == wire.v \div 8
        wireType == wire.v % 8
        x == DecodeVarint(dAtA, wire.next, 1, 1, 0)
    IN  IF wire.err # "nil" THEN [m EXCEPT !.err = wire.err]
        ELSE IF wireType = 4 THEN [m EXCEPT !.err = "end group"]
        ELSE IF fieldNum <= 0 THEN [m EXCEPT !.err = "illegal tag"]
        ELSE IF fieldNum = 1
             THEN IF wireType # 2 THEN [m EXCEPT !.err = "wrong wireType"]
                  ELSE IF x.err # "nil" THEN [m EXCEPT !.err = x.err]
                  ELSE IF x.next + x.v > Len(dAtA)
                       THEN [m EXCEPT !.err = "ErrUnexpectedEOF"]
                  ELSE UnmarshalFrom(dAtA, x.next + x.v,
                           [m EXCEPT !.Key = Slice(dAtA, x.next, x.next + x.v)])
        ELSE IF fieldNum = 2
             THEN IF wireType # 0 THEN [m EXCEPT !.err = "wrong wireType"]
                  ELSE IF x.err # "nil" THEN [m EXCEPT !.err = x.err]
                  ELSE UnmarshalFrom(dAtA, x.next, [m EXCEPT !.Offset = x.v])
        ELSE IF fieldNum = 3
             THEN IF wireType # 0 THEN [m EXCEPT !.err = "wrong wireType"]
                  ELSE IF x.err # "nil" THEN [m EXCEPT !.err = x.err]
                  ELSE UnmarshalFrom(dAtA, x.next, [m EXCEPT !.Size = x.v])
        ELSE LET skippy == Skip(dAtA, iNdEx)
             IN  IF skippy < 0 THEN [m EXCEPT !.err = "ErrInvalidLength"]
                 ELSE IF iNdEx + skippy > Len(dAtA)
                      THEN [m EXCEPT !.err = "ErrUnexpectedEOF"]
                 ELSE UnmarshalFrom(dAtA, iNdEx + skippy, m)

\* IndexEntry.UnmarshalVT into a zero IndexEntry: the decoded entry and the
\* error ("nil" when the bytes parse).
UnmarshalVT(dAtA) ==
    UnmarshalFrom(dAtA, 0, [Key |-> <<>>, Offset |-> 0, Size |-> 0, err |-> "nil"])

\* The IndexEntry of a decoded record.
EntryOf(m) == IndexEntry(m.Key, m.Offset, m.Size)

(* ------------------------------ the sink ------------------------------- *)

\* The bytes the sink takes in the loop that writes buf when each Write takes
\* c bytes of what it is given: the Write that starts with nw bytes written
\* is given Given(buf, nw), and byte j of the output is taken by the Write
\* that starts at the multiple of c below j.
Chunked(buf, c, Given(_, _)) ==
    [j \in 1..Len(buf) |-> Given(buf, ((j - 1) \div c) * c)[((j - 1) % c) + 1]]

\* A loop that hands the sink the whole buffer at every Write, buf and not
\* buf[nw:].
WriteBufResend(buf, sink) ==
    With(IF sink.accept = NoFault \/ sink.accept > Len(buf) THEN Len(buf)
         ELSE sink.accept, LAMBDA c :
        IF sink.negative
        THEN [bytes |-> <<>>, n |-> 0, err |-> "writer returned negative bytes written"]
        ELSE IF sink.room = NoFault \/ Len(buf) <= sink.room
        THEN [bytes |-> Chunked(buf, c, LAMBDA whole, nw : whole),
              n |-> Len(buf), err |-> "nil"]
        ELSE [bytes |-> SubSeq(Chunked(buf, c, LAMBDA whole, nw : whole), 1, sink.room),
              n |-> (sink.room \div c) * c, err |-> "sink error"])

\* One write loop of WriteIndex on a non-empty buf, for nw < len(buf) { n,
\* err := writer.Write(buf[nw:]); ...; nw += n; pos += uint64(n) }: the bytes
\* the sink took, the count n the loop added to pos from the calls that
\* returned no error, and the error that ended it. Each Write takes c bytes;
\* the Write that would take the sink past its room fails, having taken the
\* bytes up to the room. The three loops name what they were writing in the
\* error for a negative count; the model has one error for the three.
WriteBuf(buf, sink) ==
    With(IF sink.accept = NoFault \/ sink.accept > Len(buf) THEN Len(buf)
         ELSE sink.accept, LAMBDA c :
        IF sink.negative
        THEN [bytes |-> <<>>, n |-> 0, err |-> "writer returned negative bytes written"]
        ELSE IF sink.room = NoFault \/ Len(buf) <= sink.room
        THEN [bytes |-> Chunked(buf, c, LAMBDA whole, nw : Slice(whole, nw, Len(whole))),
              n |-> Len(buf), err |-> "nil"]
        ELSE [bytes |-> SubSeq(Chunked(buf, c, LAMBDA whole, nw :
                                   Slice(whole, nw, Len(whole))), 1, sink.room),
              n |-> (sink.room \div c) * c, err |-> "sink error"])

RECURSIVE SinkWrites(_, _)
\* The write loops of WriteIndex run on each buffer of bufs in turn, until
\* one ends with an error: the bytes the sink took, the count added to pos
\* and the error.
SinkWrites(bufs, sink) ==
    IF bufs = <<>> THEN [bytes |-> <<>>, n |-> 0, err |-> "nil"]
    ELSE With(WriteBuf(Head(bufs), sink), LAMBDA w :
             IF w.err # "nil" THEN w
             ELSE With(SinkWrites(Tail(bufs),
                                  [sink EXCEPT !.room = IF @ = NoFault THEN NoFault
                                                        ELSE @ - w.n]),
                       LAMBDA rest :
                      [bytes |-> w.bytes \o rest.bytes,
                       n |-> w.n + rest.n,
                       err |-> rest.err]))

\* How copying a value can end: kind "none" copies all of it; "source" is an
\* error of the value reader after `at` bytes, "sink" an error of the sink
\* after `at` bytes, "sinkEOF" a sink whose error is io.EOF.
CopyFaults(value) ==
    {[kind |-> "none", at |-> Len(value)]}
    \cup [kind : {"source", "sink", "sinkEOF"}, at : 0..Len(value)]

\* io.CopyBuffer(w.out, valueRdr, buf): the bytes written and the error; the
\* end of the source is no error.
CopyBuffer(value, fault) ==
    [nw |-> fault.at,
     err |-> CASE fault.kind = "none" -> "nil"
               [] fault.kind = "source" -> "read error"
               [] fault.kind = "sink" -> "sink error"
               [] fault.kind = "sinkEOF" -> "EOF"]

(* ----------------------------- WriteIndex ------------------------------ *)

RECURSIVE WriteEntriesUnchecked(_, _, _, _, _)
\* The entry loop without its comparison of neighbouring keys.
WriteEntriesUnchecked(index, i, p, bufs, indexEntryPos) ==
    IF i > Len(index)
    THEN [bufs |-> bufs, pos |-> p, indexEntryPos |-> indexEntryPos, err |-> "nil"]
    ELSE LET indexEntrySize == SizeVT(index[i])
             buf == MarshalToSizedBufferVT(index[i], indexEntrySize)
             entryEnd == p + Len(buf)
             sizeBuf == AppendVarint(Len(buf))
         IN  WriteEntriesUnchecked(index, i + 1, entryEnd + Len(sizeBuf),
                          bufs \o (IF buf = <<>> THEN <<>> ELSE <<buf>>) \o <<sizeBuf>>,
                          Append(indexEntryPos, entryEnd))

RECURSIVE WriteEntriesAfterVarint(_, _, _, _, _)
\* The entry loop recording the position after the varint of each entry.
WriteEntriesAfterVarint(index, i, p, bufs, indexEntryPos) ==
    IF i > Len(index)
    THEN [bufs |-> bufs, pos |-> p, indexEntryPos |-> indexEntryPos, err |-> "nil"]
    ELSE IF i # 1 /\ Equal(index[i].Key, index[i - 1].Key)
    THEN [bufs |-> bufs, pos |-> p, indexEntryPos |-> indexEntryPos,
          err |-> "duplicate key while writing"]
    ELSE LET indexEntrySize == SizeVT(index[i])
             buf == MarshalToSizedBufferVT(index[i], indexEntrySize)
             entryEnd == p + Len(buf)
             sizeBuf == AppendVarint(Len(buf))
         IN  WriteEntriesAfterVarint(index, i + 1, entryEnd + Len(sizeBuf),
                          bufs \o (IF buf = <<>> THEN <<>> ELSE <<buf>>) \o <<sizeBuf>>,
                          Append(indexEntryPos, entryEnd + Len(sizeBuf)))

RECURSIVE WriteEntriesCheckedFirst(_, _, _, _, _)
\* The entry loop of a WriteIndex that finds a duplicate before it writes
\* any entry.
WriteEntriesCheckedFirst(index, i, p, bufs, indexEntryPos) ==
    IF i > Len(index)
    THEN [bufs |-> bufs, pos |-> p, indexEntryPos |-> indexEntryPos, err |-> "nil"]
    ELSE IF i # 1 /\ Equal(index[i].Key, index[i - 1].Key)
    THEN [bufs |-> <<>>, pos |-> p, indexEntryPos |-> <<>>,
          err |-> "duplicate key while writing"]
    ELSE LET indexEntrySize == SizeVT(index[i])
             buf == MarshalToSizedBufferVT(index[i], indexEntrySize)
             entryEnd == p + Len(buf)
             sizeBuf == AppendVarint(Len(buf))
         IN  WriteEntriesCheckedFirst(index, i + 1, entryEnd + Len(sizeBuf),
                          bufs \o (IF buf = <<>> THEN <<>> ELSE <<buf>>) \o <<sizeBuf>>,
                          Append(indexEntryPos, entryEnd))

RECURSIVE WriteEntries(_, _, _, _, _)
\* The entry loop of WriteIndex over the sorted index from entry i (1-based),
\* p being pos: the buffers handed to writer.Write so far, indexEntryPos and
\* the error that ends the loop.
WriteEntries(index, i, p, bufs, indexEntryPos) ==
    IF i > Len(index)
    THEN [bufs |-> bufs, pos |-> p, indexEntryPos |-> indexEntryPos, err |-> "nil"]
    ELSE IF i # 1 /\ Equal(index[i].Key, index[i - 1].Key)
    THEN [bufs |-> bufs, pos |-> p, indexEntryPos |-> indexEntryPos,
          err |-> "duplicate key while writing"]
    ELSE LET indexEntrySize == SizeVT(index[i])
             buf == MarshalToSizedBufferVT(index[i], indexEntrySize)
             entryEnd == p + Len(buf)
             sizeBuf == AppendVarint(Len(buf))
         IN  WriteEntries(index, i + 1, entryEnd + Len(sizeBuf),
                          bufs \o (IF buf = <<>> THEN <<>> ELSE <<buf>>) \o <<sizeBuf>>,
                          Append(indexEntryPos, entryEnd))

\* WriteIndex(writer, index, pos) on the sink: the bytes the sink
\* took, the returned count (end pos - pos) and the returned error.
WriteIndex(index, p, sink) ==
    With(WriteEntries(SortStableFunc(index), 1, p, <<>>, <<>>), LAMBDA w :
    With(Append(w.indexEntryPos, Len(index)), LAMBDA table :
    With(SinkWrites(IF w.err # "nil" THEN w.bufs
                    ELSE w.bufs \o [k \in 1..Len(table) |-> AppendUint64(table[k])],
                    sink), LAMBDA sunk :
        [bytes |-> sunk.bytes,
         n |-> sunk.n,
         err |-> IF sunk.err # "nil" THEN sunk.err ELSE w.err])))

(* ---------------------- Write / WriteIterator -------------------------- *)

\* How a batch write can be cut short. The key iterator returns the keys of
\* a list and then `end`: "nil" is (nil, nil), as the iterator of Write does,
\* "EOF" is (nil, io.EOF) and "error" any other error. The value callback
\* fails at its call number `at` (0: at none) after writing `wrote` bytes of
\* the value.
BatchFaults(vals) ==
    [end : {"nil", "EOF", "error"}, at : {0}, wrote : {0}]
        \cup UNION {[end : {"nil", "EOF", "error"}, at : {k}, wrote : 0..Len(vals[k])] :
                       k \in 1..Len(vals)}

\* The batch write nothing cuts short.
Completes == [end |-> "nil", at |-> 0, wrote |-> 0]

RECURSIVE IterateKeysPastEmpty(_, _, _, _, _, _)
\* The loop taking a zero-length key as a key like any other.
IterateKeysPastEmpty(keys, vals, fault, i, p, st) ==
    IF i > Len(keys) /\ fault.end = "error"
    THEN [st EXCEPT !.pos = p, !.err = "iterator error"]
    ELSE IF i > Len(keys)
    THEN [st EXCEPT !.pos = p]
    ELSE IF fault.at = i
    THEN [st EXCEPT !.pos = p,
                    !.bytes = @ \o SubSeq(vals[i], 1, fault.wrote),
                    !.calls = Append(@, keys[i]),
                    !.err = "callback error"]
    ELSE IterateKeysPastEmpty(keys, vals, fault, i + 1, p + Len(vals[i]),
                     [st EXCEPT !.bytes = @ \o vals[i],
                                !.calls = Append(@, keys[i]),
                                !.index = Append(@, IndexEntry(keys[i], p, Len(vals[i])))])

RECURSIVE IterateKeys(_, _, _, _, _, _)
\* The loop of WriteIterator from its i-th iteration (1-based), p being pos:
\* keyIterator returns keys[i], and fault.end after the last key; an error
\* other than io.EOF is returned, io.EOF or a zero-length key ends the loop;
\* vals[i] is what writeValueFunc writes for the i-th key, returning the
\* exact count, unless it fails, and then its error is returned. calls lists
\* the keys writeValueFunc was called with.
IterateKeys(keys, vals, fault, i, p, st) ==
    IF i > Len(keys) /\ fault.end = "error"
    THEN [st EXCEPT !.pos = p, !.err = "iterator error"]
    ELSE IF i > Len(keys) \/ Len(keys[i]) = 0
    THEN [st EXCEPT !.pos = p]
    ELSE IF fault.at = i
    THEN [st EXCEPT !.pos = p,
                    !.bytes = @ \o SubSeq(vals[i], 1, fault.wrote),
                    !.calls = Append(@, keys[i]),
                    !.err = "callback error"]
    ELSE IterateKeys(keys, vals, fault, i + 1, p + Len(vals[i]),
                     [st EXCEPT !.bytes = @ \o vals[i],
                                !.calls = Append(@, keys[i]),
                                !.index = Append(@, IndexEntry(keys[i], p, Len(vals[i])))])

\* A WriteIterator that goes on to write the index of the entries it has
\* after the iterator or the callback failed.
WriteIteratorIndexAnyway(keys, vals, fault) ==
    With(IterateKeys(keys, vals, fault, 1, 0,
                     [bytes |-> <<>>, index |-> <<>>, pos |-> 0,
                      calls |-> <<>>, err |-> "nil"]),
         LAMBDA it :
    With(WriteIndex(it.index, it.pos, Whole), LAMBDA wi :
        [bytes |-> it.bytes \o wi.bytes, index |-> it.index,
         err |-> IF it.err # "nil" THEN it.err ELSE wi.err, calls |-> it.calls]))

\* WriteIterator(writer, keyIterator, writeValueFunc): the bytes the sink
\* took, the index it built, the returned error and the keys writeValueFunc
\* was called with. Write calls it with an iterator that ends with
\* (nil, nil).
WriteIterator(keys, vals, fault) ==
    With(IterateKeys(keys, vals, fault, 1, 0,
                     [bytes |-> <<>>, index |-> <<>>, pos |-> 0,
                      calls |-> <<>>, err |-> "nil"]),
         LAMBDA it :
        IF it.err # "nil"
        THEN [bytes |-> it.bytes, index |-> it.index, err |-> it.err,
              calls |-> it.calls]
        ELSE With(WriteIndex(it.index, it.pos, Whole), LAMBDA wi :
                 [bytes |-> it.bytes \o wi.bytes, index |-> it.index,
                  err |-> wi.err, calls |-> it.calls]))

(* ------------------------------- Reader -------------------------------- *)
(* Positions in the archives of this model are far below 2^63, so the      *)
(* reader's guards against values that overflow int64 / uint64 never fire  *)
(* and are left out; every other check of the code is here.                *)

\* A nil *IndexEntry.
NilEntry == [nil |-> TRUE]

\* No Reader has been built.
NoReader == [none |-> TRUE]

\* rd.ReadAt(buf, off) with len(buf) = n on the in-memory bytes rd
\* (bytes.Reader): an offset at or past the end, or fewer than n bytes left,
\* is io.EOF.
ReadAt(rd, n, off) ==
    IF off < 0 THEN [err |-> "negative offset", buf |-> <<>>]
    ELSE IF off >= Len(rd) \/ off + n > Len(rd) THEN [err |-> "EOF", buf |-> <<>>]
    ELSE [err |-> "nil", buf |-> Slice(rd, off, off + n)]

\* A count field read from the trailer that exceeds math.MaxUint64/8: one of
\* its three highest bits is set.
OverflowsTimes8(buf) == buf[8] >= 32

\* A field of 2^63 or more: it exceeds math.MaxInt64.
OverflowsInt64(buf) == buf[8] >= 128

\* A field of 2^28 or more. Every stream of this model is shorter than 2^28
\* bytes: 8 times such a count exceeds indexEntryCountPos, and a ReadAt at
\* such a position is past the end.
ExceedsEveryStream(buf) == buf[4] >= 16 \/ \E k \in 5..8 : buf[k] # 0

\* BuildReader that takes a 0-byte stream for a stream too short for its
\* count field.
BuildReaderNoEmpty(rd, fileSize) ==
    LET fail(e) == [err |-> e, indexEntryCount |-> 0,
                    indexEntryIndexesPos |-> 0, indexEntryListPos |-> 0]
        indexEntryCountPos == fileSize - 8
    IN  IF fileSize < 8 THEN fail("ErrFileSizeTooSmallForIndexCount")
        ELSE
        With(ReadAt(rd, 8, indexEntryCountPos), LAMBDA cnt :
            IF cnt.err # "nil" THEN fail(cnt.err)
            ELSE IF OverflowsTimes8(cnt.buf)
                 THEN fail("index entry count too large, would overflow multiplication")
            ELSE IF ExceedsEveryStream(cnt.buf)
                 THEN fail("index entry count too large for file size")
            ELSE
        With(Uint64(cnt.buf), LAMBDA indexEntryCount :
        With(indexEntryCountPos - indexEntryCount * 8, LAMBDA indexEntryIndexesPos :
        With(ReadAt(rd, 8, indexEntryIndexesPos), LAMBDA first :
            IF indexEntryCount * 8 > indexEntryCountPos
                 THEN fail("index entry count too large for file size")
            ELSE IF first.err # "nil" THEN fail(first.err)
            ELSE IF OverflowsInt64(first.buf)
                 THEN fail("first index entry length position overflows int64")
            ELSE IF ExceedsEveryStream(first.buf) THEN fail("EOF")
            ELSE
        With(Uint64(first.buf), LAMBDA firstIndexEntryLenPos :
        With(ReadAt(rd, 8, firstIndexEntryLenPos), LAMBDA lenBuf :
        With(ConsumeVarint(lenBuf.buf), LAMBDA sz :
            IF lenBuf.err # "nil" THEN fail(lenBuf.err)
            ELSE IF sz.n < 0 THEN fail("invalid index entry size varint")
            ELSE IF sz.v > maxIndexEntrySize THEN fail("invalid index entry size")
            ELSE IF firstIndexEntryLenPos < sz.v
                 THEN fail("index entry size larger than its position")
            ELSE [err |-> "nil", indexEntryCount |-> indexEntryCount,
                  indexEntryIndexesPos |-> indexEntryIndexesPos,
                  indexEntryListPos |-> firstIndexEntryLenPos - sz.v])))))))

\* The count field of a read without its three highest bits: the count that
\* 8 * indexEntryCount modulo 2^64 is the product of.
Low61(cnt) ==
    IF cnt.err # "nil" THEN cnt
    ELSE [cnt EXCEPT !.buf = SubSeq(cnt.buf, 1, 7) \o <<cnt.buf[8] % 32>>]

\* BuildReader without the guard on the multiplication: 8 * indexEntryCount
\* wraps modulo 2^64 and the positions follow from the wrapped product.
BuildReaderWrapping(rd, fileSize) ==
    LET fail(e) == [err |-> e, indexEntryCount |-> 0,
                    indexEntryIndexesPos |-> 0, indexEntryListPos |-> 0]
        indexEntryCountPos == fileSize - 8
    IN  IF fileSize = 0
        THEN [err |-> "nil", indexEntryCount |-> 0,
              indexEntryIndexesPos |-> 0, indexEntryListPos |-> 0]
        ELSE IF fileSize < 8 THEN fail("ErrFileSizeTooSmallForIndexCount")
        ELSE
        With(Low61(ReadAt(rd, 8, indexEntryCountPos)), LAMBDA cnt :
            IF cnt.err # "nil" THEN fail(cnt.err)
            ELSE IF ExceedsEveryStream(cnt.buf)
                 THEN fail("index entry count too large for file size")
            ELSE
        With(Uint64(cnt.buf), LAMBDA indexEntryCount :
        With(indexEntryCountPos - indexEntryCount * 8, LAMBDA indexEntryIndexesPos :
        With(ReadAt(rd, 8, indexEntryIndexesPos), LAMBDA first :
            IF indexEntryCount * 8 > indexEntryCountPos
                 THEN fail("index entry count too large for file size")
            ELSE IF first.err # "nil" THEN fail(first.err)
            ELSE IF OverflowsInt64(first.buf)
                 THEN fail("first index entry length position overflows int64")
            ELSE IF ExceedsEveryStream(first.buf) THEN fail("EOF")
            ELSE
        With(Uint64(first.buf), LAMBDA firstIndexEntryLenPos :
        With(ReadAt(rd, 8, firstIndexEntryLenPos), LAMBDA lenBuf :
        With(ConsumeVarint(lenBuf.buf), LAMBDA sz :
            IF lenBuf.err # "nil" THEN fail(lenBuf.err)
            ELSE IF sz.n < 0 THEN fail("invalid index entry size varint")
            ELSE IF sz.v > maxIndexEntrySize THEN fail("invalid index entry size")
            ELSE IF firstIndexEntryLenPos < sz.v
                 THEN fail("index entry size larger than its position")
            ELSE [err |-> "nil", indexEntryCount |-> indexEntryCount,
                  indexEntryIndexesPos |-> indexEntryIndexesPos,
                  indexEntryListPos |-> firstIndexEntryLenPos - sz.v])))))))

\* BuildReader(rd, fileSize): the Reader's fields and the error. Streams are
\* far shorter than 2^63 bytes, so the int64 conversion guards on fileSize and
\* on the positions computed from it never fire; the guards on the fields read
\* from the stream are those of the code, decided on the field's bytes where
\* the number is too wide to compute.
BuildReader(rd, fileSize) ==
    LET fail(e) == [err |-> e, indexEntryCount |-> 0,
                    indexEntryIndexesPos |-> 0, indexEntryListPos |-> 0]
        indexEntryCountPos == fileSize - 8
    IN  IF fileSize = 0
        THEN [err |-> "nil", indexEntryCount |-> 0,
              indexEntryIndexesPos |-> 0, indexEntryListPos |-> 0]
        ELSE IF fileSize < 8 THEN fail("ErrFileSizeTooSmallForIndexCount")
        ELSE
        With(ReadAt(rd, 8, indexEntryCountPos), LAMBDA cnt :
            IF cnt.err # "nil" THEN fail(cnt.err)
            ELSE IF OverflowsTimes8(cnt.buf)
                 THEN fail("index entry count too large, would overflow multiplication")
            ELSE IF ExceedsEveryStream(cnt.buf)
                 THEN fail("index entry count too large for file size")
            ELSE
        With(Uint64(cnt.buf), LAMBDA indexEntryCount :
        With(indexEntryCountPos - indexEntryCount * 8, LAMBDA indexEntryIndexesPos :
        With(ReadAt(rd, 8, indexEntryIndexesPos), LAMBDA first :
            IF indexEntryCount * 8 > indexEntryCountPos
                 THEN fail("index entry count too large for file size")
            ELSE IF first.err # "nil" THEN fail(first.err)
            ELSE IF OverflowsInt64(first.buf)
                 THEN fail("first index entry length position overflows int64")
            ELSE IF ExceedsEveryStream(first.buf) THEN fail("EOF")
            ELSE
        With(Uint64(first.buf), LAMBDA firstIndexEntryLenPos :
        With(ReadAt(rd, 8, firstIndexEntryLenPos), LAMBDA lenBuf :
        With(ConsumeVarint(lenBuf.buf), LAMBDA sz :
            IF lenBuf.err # "nil" THEN fail(lenBuf.err)
            ELSE IF sz.n < 0 THEN fail("invalid index entry size varint")
            ELSE IF sz.v > maxIndexEntrySize THEN fail("invalid index entry size")
            ELSE IF firstIndexEntryLenPos < sz.v
                 THEN fail("index entry size larger than its position")
            ELSE [err |-> "nil", indexEntryCount |-> indexEntryCount,
                  indexEntryIndexesPos |-> indexEntryIndexesPos,
                  indexEntryListPos |-> firstIndexEntryLenPos - sz.v])))))))

\* Reader.Size
Size(r) == r.indexEntryCount

\* ReadIndexEntry with the bounds check of the first revision, which lets the
\* index equal to the count through.
ReadIndexEntryPastEnd(r, rd, indexEntryIdx) ==
    LET fail(e) == [entry |-> NilEntry, err |-> e]
        indexEntryLocPos == r.indexEntryIndexesPos + 8 * indexEntryIdx
    IN  IF indexEntryIdx > r.indexEntryCount
        THEN fail("out-of-bounds read of index entry")
        ELSE
        With(ReadAt(rd, 8, indexEntryLocPos), LAMBDA loc :
        With(Uint64(loc.buf), LAMBDA indexEntrySizePos :
        With(ReadAt(rd, 10, indexEntrySizePos), LAMBDA lenBuf :
        With(ConsumeVarint(lenBuf.buf), LAMBDA sz :
        With(indexEntrySizePos - sz.v, LAMBDA indexEntryPos :
        With(ReadAt(rd, sz.v, indexEntryPos), LAMBDA data :
        With(UnmarshalVT(data.buf), LAMBDA m :
            IF loc.err # "nil" THEN fail(loc.err)
            ELSE IF lenBuf.err # "nil" THEN fail(lenBuf.err)
            ELSE IF sz.n < 0 THEN fail("invalid index entry size varint")
            ELSE IF sz.v > maxIndexEntrySize THEN fail("invalid index entry size")
            ELSE IF indexEntrySizePos < sz.v
                 THEN fail("index entry size larger than its position")
            ELSE IF data.err # "nil" THEN fail(data.err)
            ELSE IF m.err # "nil" THEN fail("invalid index entry")
            ELSE IF m.Offset > indexEntryPos
                 THEN fail("offset is greater than index entry pos")
            ELSE [entry |-> EntryOf(m), err |-> "nil"])))))))

\* Reader.ReadIndexEntry(indexEntryIdx): the entry (NilEntry on error) and
\* the error.
ReadIndexEntry(r, rd, indexEntryIdx) ==
    LET fail(e) == [entry |-> NilEntry, err |-> e]
        indexEntryLocPos == r.indexEntryIndexesPos + 8 * indexEntryIdx
    IN  IF indexEntryIdx >= r.indexEntryCount
        THEN fail("out-of-bounds read of index entry")
        ELSE
        With(ReadAt(rd, 8, indexEntryLocPos), LAMBDA loc :
        With(Uint64(loc.buf), LAMBDA indexEntrySizePos :
        With(ReadAt(rd, 10, indexEntrySizePos), LAMBDA lenBuf :
        With(ConsumeVarint(lenBuf.buf), LAMBDA sz :
        With(indexEntrySizePos - sz.v, LAMBDA indexEntryPos :
        With(ReadAt(rd, sz.v, indexEntryPos), LAMBDA data :
        With(UnmarshalVT(data.buf), LAMBDA m :
            IF loc.err # "nil" THEN fail(loc.err)
            ELSE IF lenBuf.err # "nil" THEN fail(lenBuf.err)
            ELSE IF sz.n < 0 THEN fail("invalid index entry size varint")
            ELSE IF sz.v > maxIndexEntrySize THEN fail("invalid index entry size")
            ELSE IF indexEntrySizePos < sz.v
                 THEN fail("index entry size larger than its position")
            ELSE IF data.err # "nil" THEN fail(data.err)
            ELSE IF m.err # "nil" THEN fail("invalid index entry")
            ELSE IF m.Offset > indexEntryPos
                 THEN fail("offset is greater than index entry pos")
            ELSE [entry |-> EntryOf(m), err |-> "nil"])))))))

\* One more iteration of a search loop, which read entry h on the interval
\* (i, j), ahead of what the rest of the loop did.
Stepped(i, j, h, res) ==
    [res EXCEPT !.reads = <<h>> \o @, !.steps = <<[i |-> i, j |-> j]>> \o @]

\* What a search returns, (entry, idx, err), before any entry is read; reads
\* lists the indexes passed to ReadIndexEntry and steps the (i, j) of each
\* iteration of the loop.
Returns(entry, at, err) ==
    [entry |-> entry, idx |-> at, err |-> err, reads |-> <<>>, steps |-> <<>>]

RECURSIVE SearchKeyLoopClosed(_, _, _, _, _)
\* The binary search with its upper end moved as in a search on the closed
\* interval [i, j]: j = h - 1.
SearchKeyLoopClosed(r, rd, key, i, j) ==
    IF ~(i < j) THEN Returns(NilEntry, i, "nil")
    ELSE LET h == i + (j - i) \div 2
         IN  With(ReadIndexEntry(r, rd, h), LAMBDA e :
             With(Compare(e.entry.Key, key), LAMBDA cmp :
                 Stepped(i, j, h,
                     IF e.err # "nil" THEN Returns(NilEntry, h, e.err)
                     ELSE IF cmp = 0 THEN Returns(e.entry, h, "nil")
                     ELSE IF cmp < 0 THEN SearchKeyLoopClosed(r, rd, key, h + 1, j)
                     ELSE SearchKeyLoopClosed(r, rd, key, i, h - 1))))

RECURSIVE SearchKeyLoopLinear(_, _, _, _, _)
\* The search probing the low end of its interval instead of the middle.
SearchKeyLoopLinear(r, rd, key, i, j) ==
    IF ~(i < j) THEN Returns(NilEntry, i, "nil")
    ELSE LET h == i
         IN  With(ReadIndexEntry(r, rd, h), LAMBDA e :
             With(Compare(e.entry.Key, key), LAMBDA cmp :
                 Stepped(i, j, h,
                     IF e.err # "nil" THEN Returns(NilEntry, h, e.err)
                     ELSE IF cmp = 0 THEN Returns(e.entry, h, "nil")
                     ELSE IF cmp < 0 THEN SearchKeyLoopLinear(r, rd, key, h + 1, j)
                     ELSE SearchKeyLoopLinear(r, rd, key, i, h))))

RECURSIVE SearchKeyLoop(_, _, _, _, _)
\* The loop of SearchIndexEntryWithKey on the interval [i, j).
SearchKeyLoop(r, rd, key, i, j) ==
    IF ~(i < j) THEN Returns(NilEntry, i, "nil")
    ELSE LET h == i + (j - i) \div 2
         IN  With(ReadIndexEntry(r, rd, h), LAMBDA e :
             With(Compare(e.entry.Key, key), LAMBDA cmp :
                 Stepped(i, j, h,
                     IF e.err # "nil" THEN Returns(NilEntry, h, e.err)
                     ELSE IF cmp = 0 THEN Returns(e.entry, h, "nil")
                     ELSE IF cmp < 0 THEN SearchKeyLoop(r, rd, key, h + 1, j)
                     ELSE SearchKeyLoop(r, rd, key, i, h))))

\* Reader.SearchIndexEntryWithKey(key): (entry, idx, err).
SearchIndexEntryWithKey(r, rd, key) ==
    SearchKeyLoop(r, rd, key, 0, r.indexEntryCount)

RECURSIVE SearchPrefixLoopAny(_, _, _, _, _, _, _)
\* The prefix search returning the first match the bisection meets, as the
\* exact search does.
SearchPrefixLoopAny(r, rd, prefix, last, i, j, matched) ==
    IF ~(i <= j) THEN Returns(NilEntry, i, "nil")
    ELSE LET h == i + (j - i) \div 2
         IN  With(ReadIndexEntry(r, rd, h), LAMBDA e :
                 Stepped(i, j, h,
                     IF e.err # "nil" THEN Returns(NilEntry, h, e.err)
                     ELSE IF HasPrefix(e.entry.Key, prefix)
                          THEN Returns(e.entry, h, "nil")
                     ELSE IF Compare(e.entry.Key, prefix) < 0
                          THEN SearchPrefixLoopAny(r, rd, prefix, last, h + 1, j, matched)
                          ELSE SearchPrefixLoopAny(r, rd, prefix, last, i, h - 1, matched)))

RECURSIVE SearchPrefixLoop(_, _, _, _, _, _, _)
\* The loop of SearchIndexEntryWithPrefix on the interval [i, j], matched
\* being (matchedEntry, matchedIdx).
SearchPrefixLoop(r, rd, prefix, last, i, j, matched) ==
    IF ~(i <= j)
    THEN IF matched.entry # NilEntry
         THEN Returns(matched.entry, matched.idx, "nil")
         ELSE Returns(NilEntry, i, "nil")
    ELSE LET h == i + (j - i) \div 2
         IN  With(ReadIndexEntry(r, rd, h), LAMBDA e :
                 Stepped(i, j, h,
                     IF e.err # "nil" THEN Returns(NilEntry, h, e.err)
                     ELSE IF HasPrefix(e.entry.Key, prefix)
                          THEN IF last
                               THEN SearchPrefixLoop(r, rd, prefix, last, h + 1, j,
                                                     [entry |-> e.entry, idx |-> h])
                               ELSE SearchPrefixLoop(r, rd, prefix, last, i, h - 1,
                                                     [entry |-> e.entry, idx |-> h])
                     ELSE IF Compare(e.entry.Key, prefix) < 0
                          THEN SearchPrefixLoop(r, rd, prefix, last, h + 1, j, matched)
                          ELSE SearchPrefixLoop(r, rd, prefix, last, i, h - 1, matched)))

\* The prefix search returning matchedIdx whether or not an entry matched.
SearchIndexEntryWithPrefixMatchedIdx(r, rd, prefix, last) ==
    LET count == r.indexEntryCount
        at == IF last THEN count - 1 ELSE 0
    IN  IF Len(prefix) = 0
        THEN IF last /\ count = 0 THEN Returns(NilEntry, -1, "nil")
             ELSE IF at >= 0 /\ at < count
                  THEN With(ReadIndexEntry(r, rd, at), LAMBDA ent :
                           [Returns(ent.entry, at, ent.err) EXCEPT !.reads = <<at>>])
             ELSE Returns(NilEntry, at, "nil")
        ELSE IF count = 0 THEN Returns(NilEntry, 0, "nil")
        ELSE With(SearchPrefixLoop(r, rd, prefix, last, 0, count - 1,
                                   [entry |-> NilEntry, idx |-> -1]), LAMBDA res :
                 IF res.err = "nil" /\ res.entry = NilEntry
                 THEN [res EXCEPT !.idx = -1]
                 ELSE res)

\* Reader.SearchIndexEntryWithPrefix(prefix, last): (entry, idx, err).
SearchIndexEntryWithPrefix(r, rd, prefix, last) ==
    LET count == r.indexEntryCount
        at == IF last THEN count - 1 ELSE 0
    IN  IF Len(prefix) = 0
        THEN IF last /\ count = 0 THEN Returns(NilEntry, -1, "nil")
             ELSE IF at >= 0 /\ at < count
                  THEN With(ReadIndexEntry(r, rd, at), LAMBDA ent :
                           [Returns(ent.entry, at, ent.err) EXCEPT !.reads = <<at>>])
             ELSE Returns(NilEntry, at, "nil")
        ELSE IF count = 0 THEN Returns(NilEntry, 0, "nil")
        ELSE SearchPrefixLoop(r, rd, prefix, last, 0, count - 1,
                              [entry |-> NilEntry, idx |-> -1])

\* Reader.Exists(key): (found, err).
Exists(r, rd, key) ==
    With(SearchIndexEntryWithKey(r, rd, key), LAMBDA s :
        [found |-> s.entry # NilEntry, err |-> s.err])

\* The bounds check refusing a value that ends exactly where the index
\* starts.
GetValuePositionWithEntryStrict(r, indexEntry, indexEntryIdx) ==
    LET valueOffset == indexEntry.Offset
        valueSize == indexEntry.Size
        valueEnd == valueOffset + valueSize
    IN  IF valueSize > maxValueSize
        THEN [idx |-> -1, length |-> -1, err |-> "value size > max size"]
        ELSE IF valueEnd >= r.indexEntryListPos
             THEN [idx |-> -1, length |-> -1, err |-> "value end is beyond index start"]
        ELSE [idx |-> valueOffset, length |-> valueSize, err |-> "nil"]

\* GetValuePositionWithEntry without the check against maxValueSize.
GetValuePositionWithEntryAnySize(r, indexEntry, indexEntryIdx) ==
    LET valueOffset == indexEntry.Offset
        valueSize == indexEntry.Size
        valueEnd == valueOffset + valueSize
    IN  IF valueEnd > r.indexEntryIndexesPos
        THEN [idx |-> -1, length |-> -1, err |-> "value end is beyond index start"]
        ELSE [idx |-> valueOffset, length |-> valueSize, err |-> "nil"]

\* Reader.GetValuePositionWithEntry(indexEntry, indexEntryIdx):
\* (idx, length, err).
GetValuePositionWithEntry(r, indexEntry, indexEntryIdx) ==
    LET valueOffset == indexEntry.Offset
        valueSize == indexEntry.Size
        valueEnd == valueOffset + valueSize
    IN  IF valueSize > maxValueSize
        THEN [idx |-> -1, length |-> -1, err |-> "value size > max size"]
        ELSE IF valueEnd > r.indexEntryIndexesPos
             THEN [idx |-> -1, length |-> -1, err |-> "value end is beyond index start"]
        ELSE [idx |-> valueOffset, length |-> valueSize, err |-> "nil"]

\* Reader.GetValuePosition(key): (idx, length, indexEntry, indexEntryIdx, err).
GetValuePosition(r, rd, key) ==
    With(SearchIndexEntryWithKey(r, rd, key), LAMBDA s :
        IF s.entry = NilEntry
        THEN [idx |-> -1, length |-> -1, indexEntry |-> NilEntry,
              indexEntryIdx |-> -1, err |-> s.err]
        ELSE With(GetValuePositionWithEntry(r, s.entry, s.idx), LAMBDA p :
                 [idx |-> p.idx, length |-> p.length, indexEntry |-> s.entry,
                  indexEntryIdx |-> s.idx, err |-> p.err]))

\* A nil byte slice, as against an empty one.
NilBytes == [nil |-> TRUE]

\* Reader.Get(key): (value, found, err).
Get(r, rd, key) ==
    With(GetValuePosition(r, rd, key), LAMBDA p :
        IF p.err # "nil" \/ p.length < 0 \/ p.idx < 0
        THEN [value |-> NilBytes, found |-> FALSE, err |-> p.err]
        ELSE With(ReadAt(rd, p.length, p.idx), LAMBDA data :
                 IF data.err # "nil"
                 THEN [value |-> NilBytes, found |-> TRUE, err |-> data.err]
                 ELSE [value |-> data.buf, found |-> TRUE, err |-> "nil"]))

\* Reader.GetWithEntry(indexEntry, indexEntryIdx): (value, err).
GetWithEntry(r, rd, indexEntry, indexEntryIdx) ==
    With(GetValuePositionWithEntry(r, indexEntry, indexEntryIdx), LAMBDA p :
        IF p.err # "nil" THEN [value |-> NilBytes, err |-> p.err]
        ELSE IF p.length < 0 \/ p.idx < 0
             THEN [value |-> NilBytes, err |-> "ErrEntryValueNotFound"]
        ELSE With(ReadAt(rd, p.length, p.idx), LAMBDA data :
                 IF data.err # "nil" THEN [value |-> NilBytes, err |-> data.err]
                 ELSE [value |-> data.buf, err |-> "nil"]))

RECURSIVE ScanLoop(_, _, _, _, _)
\* The loop of ScanPrefixEntries from index i: the callback's calls
\* (entry, idx) in order, and the error.
ScanLoop(r, rd, prefix, i, calls) ==
    IF ~(i < Size(r)) THEN [calls |-> calls, err |-> "nil"]
    ELSE With(ReadIndexEntry(r, rd, i), LAMBDA e :
             IF e.err # "nil" THEN [calls |-> calls, err |-> e.err]
             ELSE IF ~HasPrefix(e.entry.Key, prefix)
                  THEN [calls |-> calls, err |-> "nil"]
             ELSE ScanLoop(r, rd, prefix, i + 1,
                           Append(calls, [entry |-> e.entry, idx |-> i])))

\* The scan whose loop starts at the first match again.
ScanPrefixEntriesAgain(r, rd, prefix) ==
    With(SearchIndexEntryWithPrefix(r, rd, prefix, FALSE), LAMBDA f :
        IF f.err # "nil" THEN [calls |-> <<>>, err |-> f.err]
        ELSE IF f.entry = NilEntry THEN [calls |-> <<>>, err |-> "nil"]
        ELSE ScanLoop(r, rd, prefix, f.idx, <<[entry |-> f.entry, idx |-> f.idx]>>))

\* Reader.ScanPrefixEntries(prefix, cb) with a callback that returns nil:
\* the calls cb received, in order, and the returned error.
ScanPrefixEntries(r, rd, prefix) ==
    With(SearchIndexEntryWithPrefix(r, rd, prefix, FALSE), LAMBDA f :
        IF f.err # "nil" THEN [calls |-> <<>>, err |-> f.err]
        ELSE IF f.entry = NilEntry THEN [calls |-> <<>>, err |-> "nil"]
        ELSE ScanLoop(r, rd, prefix, f.idx + 1, <<[entry |-> f.entry, idx |-> f.idx]>>))

\* Reader.ScanPrefixKeys(prefix, cb): the keys cb received, and the error.
ScanPrefixKeys(r, rd, prefix) ==
    With(ScanPrefixEntries(r, rd, prefix), LAMBDA s :
        [calls |-> [k \in 1..Len(s.calls) |-> s.calls[k].entry.Key], err |-> s.err])

RECURSIVE ScanValues(_, _, _, _, _)
\* ScanPrefix's callback over the entries ScanPrefixEntries visits: each
\* entry's value is fetched with GetWithEntry, whose error ends the scan.
ScanValues(r, rd, entries, k, calls) ==
    IF k > Len(entries.calls) THEN [calls |-> calls, err |-> entries.err]
    ELSE With(GetWithEntry(r, rd, entries.calls[k].entry, entries.calls[k].idx),
              LAMBDA d :
                 IF d.err # "nil" THEN [calls |-> calls, err |-> d.err]
                 ELSE ScanValues(r, rd, entries, k + 1,
                          Append(calls, [key |-> entries.calls[k].entry.Key,
                                         value |-> d.value])))

\* Reader.ScanPrefix(prefix, cb): the (key, value) pairs cb received, and
\* the error.
ScanPrefix(r, rd, prefix) ==
    ScanValues(r, rd, ScanPrefixEntries(r, rd, prefix), 1, <<>>)

\* The size of ReadTo's buffer.
readBufSize == 2048

\* How the source answers the ReadAt calls of ReadTo's loop: "full" is the
\* in-memory bytes.Reader; "short" returns at most limit bytes of those
\* asked for, with no error; "shortErr" returns them with an error, as
\* io.ReaderAt requires of a read that comes short.
Sources ==
    {[kind |-> "full", limit |-> NoFault],
     [kind |-> "short", limit |-> 1],
     [kind |-> "shortErr", limit |-> 1]}

\* How many bytes of a Write the sink takes: all of them, or one.
Accepts == {NoFault, 1}

\* r.rd.ReadAt(readBuf, pos) with len(readBuf) = n in ReadTo's loop: the
\* bytes read, and the error.
ReadAtFrom(rd, src, n, off) ==
    IF src.kind = "full" \/ n <= src.limit THEN ReadAt(rd, n, off)
    ELSE [err |-> IF src.kind = "short" THEN "nil" ELSE "short read",
          buf |-> Slice(rd, off, Min(off + src.limit, Len(rd)))]

RECURSIVE WriteAll(_, _, _, _, _)
\* ReadTo's inner loop: to.Write(readBuf[nw:]) until nw reaches nread or
\* len(readBuf). The bytes the sink took, and nw.
WriteAll(readBuf, nread, accept, nw, sunk) ==
    IF ~(nw < nread /\ nw < Len(readBuf)) THEN [nw |-> nw, sunk |-> sunk]
    ELSE LET njw == IF accept = NoFault THEN Len(readBuf) - nw
                    ELSE Min(accept, Len(readBuf) - nw)
         IN  WriteAll(readBuf, nread, accept, nw + njw,
                      sunk \o SubSeq(readBuf, nw + 1, nw + njw))

RECURSIVE ReadToLoop(_, _, _, _, _, _, _, _, _)
\* ReadTo's outer loop, for nr < valueLen: (n, found, err), the bytes the
\* sink took and the ReadAt calls made.
ReadToLoop(rd, src, accept, valueLen, readBuf, at, nr, sunk, reads) ==
    IF ~(nr < valueLen)
    THEN [n |-> nr, found |-> TRUE, err |-> "nil", sunk |-> sunk, reads |-> reads]
    ELSE
    With(SubSeq(readBuf, 1, Min(Len(readBuf), valueLen - nr)), LAMBDA buf :
    With(ReadAtFrom(rd, src, Len(buf), at), LAMBDA got :
    With(got.buf \o SubSeq(buf, Len(got.buf) + 1, Len(buf)), LAMBDA filled :
    With(WriteAll(filled, Len(got.buf), accept, 0, sunk), LAMBDA w :
        IF got.err # "nil"
        THEN [n |-> 0, found |-> TRUE, err |-> got.err, sunk |-> sunk,
              reads |-> Append(reads, [off |-> at, n |-> Len(buf)])]
        ELSE ReadToLoop(rd, src, accept, valueLen, filled, at + Len(got.buf),
                        nr + w.nw, w.sunk,
                        Append(reads, [off |-> at, n |-> Len(buf)]))))))

\* Reader.ReadTo(key, to): (n, found, err), with what reached the sink and
\* the reads of the value made on the source.
ReadTo(r, rd, key, src, accept) ==
    With(GetValuePosition(r, rd, key), LAMBDA p :
        IF p.err # "nil" \/ p.length < 0 \/ p.idx < 0
        THEN [n |-> 0, found |-> FALSE, err |-> p.err, sunk |-> <<>>, reads |-> <<>>]
        ELSE ReadToLoop(rd, src, accept, p.length,
                        [i \in 1..Min(readBufSize, p.length) |-> 0],
                        p.idx, 0, <<>>, <<>>))

\* Reader.GetValueSize(key): (size, err).
GetValueSize(r, rd, key) ==
    With(GetValuePosition(r, rd, key), LAMBDA p :
        IF p.err # "nil" \/ p.length < 0 \/ p.idx < 0
        THEN [size |-> -1, err |-> p.err]
        ELSE [size |-> p.length, err |-> "nil"])

(* --------------------------- the state machine ------------------------- *)

Init ==
    /\ out = <<>>
    /\ idx = <<>>
    /\ pos = 0
    /\ fin = FALSE
    /\ api = "none"
    /\ input = <<>>
    /\ wres = "none"
    /\ reader = NoReader
    /\ ret = [op |-> "none"]
    /\ mtx = 0
    /\ gor = <<>>

\* Write(writer, keys, writeValue) on the fresh sink; vals[i] is what
\* writeValue writes at its i-th call.
CallWrite(keys, vals) ==
    /\ api = "none"
    /\ LET w == WriteIterator(keys, vals, Completes)
       IN  /\ out' = out \o w.bytes
           /\ wres' = w.err
           /\ ret' = [op |-> "Write", err |-> w.err, calls |-> w.calls]
    /\ api' = "Write"
    /\ input' = [i \in 1..Len(keys) |->
                     [key |-> keys[i], value |-> vals[i], fault |-> "none"]]
    /\ UNCHANGED <<idx, pos, fin, reader, mtx, gor>>

\* WriteIterator(writer, keyIterator, writeValueFunc) on the fresh sink, the
\* iterator returning the keys and the batch cut short as fault says; with
\* fault.end = "nil" it is Write(writer, keys, writeValue) with a callback
\* that may fail.
CallWriteIterator(keys, vals, fault) ==
    /\ api = "none"
    /\ LET w == WriteIterator(keys, vals, fault)
       IN  /\ out' = out \o w.bytes
           /\ wres' = w.err
           /\ ret' = [op |-> "WriteIterator", err |-> w.err, fault |-> fault,
                      calls |-> w.calls]
    /\ api' = "Write"
    /\ input' = [i \in 1..Len(keys) |->
                     [key |-> keys[i], value |-> vals[i],
                      fault |-> IF fault.at = i THEN "callback" ELSE "none"]]
    /\ UNCHANGED <<idx, pos, fin, reader, mtx, gor>>

\* A WriteValue that records the position after the copy as the offset.
CallWriteValueOffsetAfter(key, value, fault) ==
    /\ api # "Write"
    /\ IF fin
       THEN /\ ret' = [op |-> "WriteValue", err |-> "writer is already closed"]
            /\ UNCHANGED <<out, idx, pos, fin, api, input, wres, reader, mtx, gor>>
       ELSE LET c == CopyBuffer(value, fault)
                offset == pos + c.nw
            IN  /\ Len(input) < MaxKeys
                /\ out' = out \o SubSeq(value, 1, c.nw)
                /\ pos' = pos + c.nw
                /\ fin' = (c.err # "nil" /\ c.err # "EOF")
                /\ idx' = Append(idx, IndexEntry(key, offset, c.nw))
                /\ ret' = [op |-> "WriteValue",
                           err |-> IF c.err = "EOF" THEN "nil" ELSE c.err]
                /\ api' = "Writer"
                /\ input' = Append(input, [key |-> key, value |-> value,
                                            fault |-> fault.kind])
                /\ UNCHANGED <<wres, reader, mtx, gor>>

\* A WriteValue that returns the error of a failed copy and stays open.
CallWriteValueStaysOpen(key, value, fault) ==
    /\ api # "Write"
    /\ IF fin
       THEN /\ ret' = [op |-> "WriteValue", err |-> "writer is already closed"]
            /\ UNCHANGED <<out, idx, pos, fin, api, input, wres, reader, mtx, gor>>
       ELSE LET offset == pos
                c == CopyBuffer(value, fault)
            IN  /\ Len(input) < MaxKeys
                /\ out' = out \o SubSeq(value, 1, c.nw)
                /\ pos' = pos + c.nw
                /\ fin' = FALSE
                /\ idx' = Append(idx, IndexEntry(key, offset, c.nw))
                /\ ret' = [op |-> "WriteValue",
                           err |-> IF c.err = "EOF" THEN "nil" ELSE c.err]
                /\ api' = "Writer"
                /\ input' = Append(input, [key |-> key, value |-> value,
                                            fault |-> fault.kind])
                /\ UNCHANGED <<wres, reader, mtx, gor>>

\* Writer.WriteValue(key, valueRdr), valueRdr holding value and the copy
\* ending as fault says.
CallWriteValue(key, value, fault) ==
    /\ api # "Write"
    /\ IF fin
       THEN /\ ret' = [op |-> "WriteValue", err |-> "writer is already closed"]
            /\ UNCHANGED <<out, idx, pos, fin, api, input, wres, reader, mtx, gor>>
       ELSE LET offset == pos
                c == CopyBuffer(value, fault)
            IN  /\ Len(input) < MaxKeys
                /\ out' = out \o SubSeq(value, 1, c.nw)
                /\ pos' = pos + c.nw
                /\ fin' = (c.err # "nil" /\ c.err # "EOF")
                /\ idx' = Append(idx, IndexEntry(key, offset, c.nw))
                /\ ret' = [op |-> "WriteValue",
                           err |-> IF c.err = "EOF" THEN "nil" ELSE c.err]
                /\ api' = "Writer"
                /\ input' = Append(input, [key |-> key, value |-> value,
                                            fault |-> fault.kind])
                /\ UNCHANGED <<wres, reader, mtx, gor>>

\* A Close that marks the writer finished only when the index was written.
CallCloseOnSuccess(sink) ==
    /\ api # "Write"
    /\ IF fin
       THEN /\ ret' = [op |-> "Close", err |-> "writer is already closed"]
            /\ UNCHANGED <<out, idx, pos, fin, api, input, wres, reader, mtx, gor>>
       ELSE LET w == WriteIndex(idx, pos, sink)
            IN  /\ fin' = (w.err = "nil")
                /\ idx' = IF w.err = "nil" THEN <<>> ELSE idx
                /\ out' = out \o w.bytes
                /\ pos' = pos + w.n
                /\ wres' = w.err
                /\ ret' = [op |-> "Close", err |-> w.err, sink |-> sink]
                /\ api' = "Writer"
                /\ UNCHANGED <<input, reader, mtx, gor>>

\* Writer.Close(), the index going to the sink.
CallClose(sink) ==
    /\ api # "Write"
    /\ IF fin
       THEN /\ ret' = [op |-> "Close", err |-> "writer is already closed"]
            /\ UNCHANGED <<out, idx, pos, fin, api, input, wres, reader, mtx, gor>>
       ELSE LET w == WriteIndex(idx, pos, sink)
            IN  /\ fin' = TRUE
                /\ idx' = <<>>
                /\ out' = out \o w.bytes
                /\ pos' = pos + w.n
                /\ wres' = w.err
                /\ ret' = [op |-> "Close", err |-> w.err, sink |-> sink]
                /\ api' = "Writer"
                /\ UNCHANGED <<input, reader, mtx, gor>>

\* BuildReader(rd, fileSize) on the bytes of a completed archive.
CallBuildReader ==
    /\ wres = "nil" \/ api \in {"stream", "legacy"}
    /\ reader = NoReader
    /\ LET r == BuildReader(out, Len(out))
       IN  /\ reader' = IF r.err # "nil" THEN NoReader
                        ELSE [indexEntryCount |-> r.indexEntryCount,
                              indexEntryIndexesPos |-> r.indexEntryIndexesPos,
                              indexEntryListPos |-> r.indexEntryListPos]
           /\ ret' = [op |-> "BuildReader", err |-> r.err]
    /\ UNCHANGED <<out, idx, pos, fin, api, input, wres, mtx, gor>>

\* A call of a Reader method on the freshly built Reader. The methods only
\* read, so a run makes one call: a second call would return what it returns
\* here.
Query(result) ==
    /\ reader # NoReader
    /\ ret.op = "BuildReader"
    /\ ret' = result
    /\ UNCHANGED <<out, idx, pos, fin, api, input, wres, reader, mtx, gor>>

CallReadIndexEntry(i) ==
    Query([op |-> "ReadIndexEntry", i |-> i] @@ ReadIndexEntry(reader, out, i))

CallGet(key) ==
    Query([op |-> "Get", key |-> key] @@ Get(reader, out, key))

CallExists(key) ==
    Query([op |-> "Exists", key |-> key] @@ Exists(reader, out, key))

CallSearchIndexEntryWithKey(key) ==
    Query([op |-> "SearchIndexEntryWithKey", key |-> key]
          @@ SearchIndexEntryWithKey(reader, out, key))

CallSearchIndexEntryWithPrefix(prefix, last) ==
    Query([op |-> "SearchIndexEntryWithPrefix", prefix |-> prefix, last |-> last]
          @@ SearchIndexEntryWithPrefix(reader, out, prefix, last))

CallScanPrefixEntries(prefix) ==
    Query([op |-> "ScanPrefixEntries", prefix |-> prefix]
          @@ ScanPrefixEntries(reader, out, prefix))

CallScanPrefixKeys(prefix) ==
    Query([op |-> "ScanPrefixKeys", prefix |-> prefix]
          @@ ScanPrefixKeys(reader, out, prefix))

CallScanPrefix(prefix) ==
    Query([op |-> "ScanPrefix", prefix |-> prefix]
          @@ ScanPrefix(reader, out, prefix))

CallGetValuePositionWithEntry(indexEntry) ==
    Query([op |-> "GetValuePositionWithEntry", entry |-> indexEntry]
          @@ GetValuePositionWithEntry(reader, indexEntry, 0))

CallGetWithEntry(indexEntry) ==
    Query([op |-> "GetWithEntry", entry |-> indexEntry]
          @@ GetWithEntry(reader, out, indexEntry, 0))

CallReadTo(key, src, accept) ==
    Query([op |-> "ReadTo", key |-> key, src |-> src, accept |-> accept]
          @@ ReadTo(reader, out, key, src, accept))

CallGetValueSize(key) ==
    Query([op |-> "GetValueSize", key |-> key] @@ GetValueSize(reader, out, key))

\* The copy of a whole value with no error.
NoCopyFault(value) == [kind |-> "none", at |-> Len(value)]

(* Spec: both writers on a sink that takes every byte, then a Reader on   *)
(* the completed archive and one lookup.                                   *)
Next ==
    \/ /\ api = "none"
       /\ \E n \in 0..MaxKeys : \E keys \in KeyLists(n), vals \in ValueLists(n) :
              CallWrite(keys, vals)
    \/ \E key \in Keys, value \in Values(Len(input) + 1) :
           CallWriteValue(key, value, NoCopyFault(value))
    \/ CallClose(Whole)
    \/ CallBuildReader
    \/ \E i \in 0..MaxKeys : CallReadIndexEntry(i)
    \/ \E key \in Keys : CallGet(key)
    \/ \E key \in Keys : CallExists(key)

Spec == Init /\ [][Next]_vars

(* SpecFault: the progressive Writer on a sink and a value reader that may *)
(* fail.                                                                   *)
NextFault ==
    \/ /\ fin \/ Len(input) < MaxFaultKeys
       /\ \E key \in FaultKeys, value \in Values(Len(input) + 1) :
              \E fault \in CopyFaults(value) : CallWriteValue(key, value, fault)
    \/ \E sink \in CloseSinks : CallClose(sink)
    \/ \E n \in 0..MaxFaultKeys :
           \E keys \in [1..n -> BatchKeys], vals \in ValueLists(n) :
               \E fault \in BatchFaults(vals) : CallWriteIterator(keys, vals, fault)

SpecFault == Init /\ [][NextFault]_vars

(* SpecSearch: a Reader on an archive Write made of a set of keys, and one *)
(* search or scan on it.                                                   *)
RECURSIVE Descending(_)
\* The keys of the set S as a list, greatest first.
Descending(S) ==
    IF S = {} THEN <<>>
    ELSE LET top == CHOOSE k \in S : \A o \in S : Compare(o, k) <= 0
         IN  <<top>> \o Descending(S \ {top})

\* The value written for the i-th key of a search archive.
SearchValue(i) == <<110 + i, 120 + i>>

InitSearch ==
    \E S \in SUBSET ArchiveKeys :
        /\ Cardinality(S) <= MaxEntries
        /\ LET keys == Descending(S)
               vals == [i \in 1..Len(keys) |-> SearchValue(i)]
               w == WriteIterator(keys, vals, Completes)
               r == BuildReader(out, Len(out))
           IN  /\ out = w.bytes
               /\ input = [i \in 1..Len(keys) |->
                               [key |-> keys[i], value |-> vals[i], fault |-> "none"]]
               /\ wres = w.err
               /\ reader = [indexEntryCount |-> r.indexEntryCount,
                            indexEntryIndexesPos |-> r.indexEntryIndexesPos,
                            indexEntryListPos |-> r.indexEntryListPos]
               /\ ret = [op |-> "BuildReader", err |-> r.err]
        /\ api = "Write"
        /\ idx = <<>>
        /\ pos = 0
        /\ fin = FALSE
        /\ mtx = 0
        /\ gor = <<>>

NextSearch ==
    \/ \E key \in Probes : CallSearchIndexEntryWithKey(key)
    \/ \E prefix \in Probes, last \in BOOLEAN : CallSearchIndexEntryWithPrefix(prefix, last)
    \/ \E prefix \in Probes : CallScanPrefixEntries(prefix)
    \/ \E prefix \in Probes : CallScanPrefixKeys(prefix)
    \/ \E prefix \in Probes : CallScanPrefix(prefix)

SpecSearch == InitSearch /\ [][NextSearch]_vars

\* ---- Goroutines sharing one Writer ----

\* The number of goroutines that call WriteValue on the Writer.
MaxGoroutines == 3

Goroutines == 1..MaxGoroutines

\* The goroutines have the Writer and a pair each; none has called yet.
InitShared ==
    /\ out = <<>>
    /\ idx = <<>>
    /\ pos = 0
    /\ fin = FALSE
    /\ api = "Writer"
    /\ input = <<>>
    /\ wres = "none"
    /\ reader = NoReader
    /\ ret = [op |-> "none"]
    /\ mtx = 0
    /\ \E vals \in [Goroutines -> UNION {Values(g) : g \in Goroutines}] :
           /\ \A g \in Goroutines : vals[g] \in Values(g)
           /\ gor = [g \in Goroutines |->
                           [pc |-> "call", key |-> <<g>>, value |-> vals[g],
                            offset |-> 0, nw |-> 0, err |-> "none"]]

\* A Lock that does not wait for the mutex to be free.
LockNoWait(g) ==
    /\ gor[g].pc = "call"
    /\ mtx' = g
    /\ gor' = [gor EXCEPT ![g].pc = "locked"]
    /\ UNCHANGED <<out, idx, pos, fin, api, input, wres, reader, ret>>

\* w.mtx.Lock() at the start of WriteValue: blocks while another goroutine
\* holds the mutex.
Lock(g) ==
    /\ gor[g].pc = "call"
    /\ mtx = 0
    /\ mtx' = g
    /\ gor' = [gor EXCEPT ![g].pc = "locked"]
    /\ UNCHANGED <<out, idx, pos, fin, api, input, wres, reader, ret>>

\* The check of w.fin and offset := w.pos.
Enter(g) ==
    /\ gor[g].pc = "locked"
    /\ gor' = IF fin
                THEN [gor EXCEPT ![g].pc = "return",
                                   ![g].err = "writer is already closed"]
                ELSE [gor EXCEPT ![g].pc = "copy", ![g].offset = pos]
    /\ UNCHANGED <<out, idx, pos, fin, api, input, wres, reader, ret, mtx>>

\* One round of io.CopyBuffer: the next n bytes of the value reach the sink.
Copy(g, n) ==
    /\ gor[g].pc = "copy"
    /\ gor[g].nw + n <= Len(gor[g].value)
    /\ out' = out \o SubSeq(gor[g].value, gor[g].nw + 1, gor[g].nw + n)
    /\ gor' = [gor EXCEPT ![g].nw = @ + n]
    /\ UNCHANGED <<idx, pos, fin, api, input, wres, reader, ret, mtx>>

\* The copy has ended: w.pos += nw and the entry is appended to w.idx.
Record(g) ==
    /\ gor[g].pc = "copy"
    /\ gor[g].nw = Len(gor[g].value)
    /\ pos' = pos + gor[g].nw
    /\ idx' = Append(idx, IndexEntry(gor[g].key, gor[g].offset, gor[g].nw))
    /\ input' = Append(input, [key |-> gor[g].key, value |-> gor[g].value,
                                fault |-> "none"])
    /\ gor' = [gor EXCEPT ![g].pc = "return", ![g].err = "nil"]
    /\ UNCHANGED <<out, fin, api, wres, reader, ret, mtx>>

\* The deferred w.mtx.Unlock() as WriteValue returns.
Unlock(g) ==
    /\ gor[g].pc = "return"
    /\ mtx' = 0
    /\ gor' = [gor EXCEPT ![g].pc = "done"]
    /\ ret' = [op |-> "WriteValue", err |-> gor[g].err]
    /\ UNCHANGED <<out, idx, pos, fin, api, input, wres, reader>>

RECURSIVE SizesOf(_)
\* The sizes of the entries of an index, added up.
SizesOf(index) ==
    IF index = <<>> THEN 0 ELSE Head(index).Size + SizesOf(Tail(index))

\* The bytes copied to the sink by the goroutine inside io.CopyBuffer, whose
\* w.pos += nw is still to come; 0 when there is none.
Copied ==
    IF \E g \in Goroutines : gor[g].pc = "copy"
    THEN gor[CHOOSE g \in Goroutines : gor[g].pc = "copy"].nw
    ELSE 0

\* Writer.GetPos(): w.pos, read without the mutex.
GetPos == pos

\* A goroutine calls GetPos() at any moment, whoever holds the mutex. The
\* read of w.pos races with the w.pos += of WriteValue and of Close; it
\* yields the value before or after that write, which are the values of pos
\* in the states before and after Record and Close. The call is recorded
\* with the number of bytes the sink holds, the sizes of the entries
\* recorded, the bytes copied by the WriteValue in progress and whether the
\* Writer is closed, all as of the return.
CallGetPos ==
    /\ ret' = [op |-> "GetPos", pos |-> GetPos, written |-> Len(out),
               sizes |-> SizesOf(idx), copied |-> Copied, closed |-> fin,
               err |-> "nil"]
    /\ UNCHANGED <<out, idx, pos, fin, api, input, wres, reader, mtx, gor>>

NextShared ==
    \/ CallGetPos
    \/ \E g \in Goroutines : Lock(g)
    \/ \E g \in Goroutines : Enter(g)
    \/ \E g \in Goroutines, n \in 1..2 : Copy(g, n)
    \/ \E g \in Goroutines : Record(g)
    \/ \E g \in Goroutines : Unlock(g)
    \/ /\ mtx = 0
       /\ CallClose(Whole)

SpecShared == InitShared /\ [][NextShared]_vars

\* ---- Streams that no writer of this package produced ----

\* n zero bytes.
Zeros(n) == [i \in 1..n |-> 0]

\* The longest run of bytes put in front of a count field.
MaxBody == 17

\* Count fields: 0 to 3, 2^28, 2^32, 2^61 - 1, 2^61, 2^61 + 1, 2^63 and
\* 2^64 - 1.
TrailerCounts ==
    {AppendUint64(n) : n \in 0..3}
    \cup {<<0, 0, 0, 16, 0, 0, 0, 0>>, <<0, 0, 0, 0, 1, 0, 0, 0>>,
          <<255, 255, 255, 255, 255, 255, 255, 31>>, <<0, 0, 0, 0, 0, 0, 0, 32>>,
          <<1, 0, 0, 0, 0, 0, 0, 32>>, <<0, 0, 0, 0, 0, 0, 0, 128>>,
          <<255, 255, 255, 255, 255, 255, 255, 255>>}

\* Streams of every length up to MaxBody + 8: those shorter than a count
\* field, and zero bytes followed by a count field.
Trailers ==
    {Zeros(n) : n \in 0..7}
    \cup {Zeros(n) \o count : n \in 0..MaxBody, count \in TrailerCounts}

\* The value bytes at the start of a stream with an index made by hand.
ForgedBody == <<101, 102, 103, 104>>

\* The sizes and offsets index entries made by hand declare.
ForgedSizes == {0, 2, 4, 6, 40, maxValueSize + 1}

ForgedOffsets == {0, 2}

ForgedEntries(key) ==
    {IndexEntry(key, offset, size) : offset \in ForgedOffsets, size \in ForgedSizes}

\* An index of one entry with the key <<1>>, or of two with the keys <<1>>
\* and <<2>>.
ForgedIndexes ==
    {<<e>> : e \in ForgedEntries(<<1>>)}
    \cup {<<e1, e2>> : e1 \in ForgedEntries(<<1>>), e2 \in ForgedEntries(<<2>>)}

\* ForgedBody followed by what WriteIndex writes for an index made by hand.
Forged ==
    {ForgedBody \o WriteIndex(index, Len(ForgedBody), Whole).bytes :
         index \in ForgedIndexes}

\* The streams handed to BuildReader.
Streams == Trailers \cup Forged

RECURSIVE LegacyValues(_, _, _, _, _)
\* The loop of the first revision's Write over the sorted keys from the i-th:
\* a key equal to the one before is skipped; the others get an entry of the
\* key and the position, with no size, and their value is written. The bytes
\* written and the index.
LegacyValues(keys, value, i, bytes, index) ==
    IF i > Len(keys) THEN [bytes |-> bytes, index |-> index]
    ELSE IF i # 1 /\ Equal(keys[i - 1], keys[i])
         THEN LegacyValues(keys, value, i + 1, bytes, index)
    ELSE LegacyValues(keys, value, i + 1, bytes \o value[keys[i]],
                      Append(index, IndexEntry(keys[i], Len(bytes), 0)))

\* Write of the first revision: the keys are sorted, the values written in
\* that order, then the entries, each followed by its length, the positions
\* and the count, framed as WriteIndex frames them.
LegacyWrite(keys, value) ==
    With(SortStableFunc([i \in 1..Len(keys) |-> IndexEntry(keys[i], 0, 0)]), LAMBDA sorted :
    With(LegacyValues([i \in 1..Len(sorted) |-> sorted[i].Key], value, 1, <<>>, <<>>),
         LAMBDA w :
        [bytes |-> w.bytes \o WriteIndex(w.index, Len(w.bytes), Whole).bytes,
         index |-> w.index]))

\* The values the first revision's writeValue writes for the keys.
LegacyValueOf == [FaultKeys -> {<<>>, <<111, 121>>, <<112, 122, 132>>}]

\* A stream from elsewhere is opened, or the sink is fresh.
InitStream ==
    \/ Init
    \/ /\ out \in Streams
       /\ api = "stream"
       /\ idx = <<>>
       /\ pos = 0
       /\ fin = FALSE
       /\ input = <<>>
       /\ wres = "none"
       /\ reader = NoReader
       /\ ret = [op |-> "none"]
       /\ mtx = 0
       /\ gor = <<>>
    \/ /\ \E n \in 1..2 : \E keys \in [1..n -> FaultKeys], value \in LegacyValueOf :
              LET w == LegacyWrite(keys, value)
              IN  /\ out = w.bytes
                  /\ input = [i \in 1..Len(w.index) |->
                                  [key |-> w.index[i].Key,
                                   value |-> value[w.index[i].Key],
                                   fault |-> "none"]]
       /\ api = "legacy"
       /\ idx = <<>>
       /\ pos = 0
       /\ fin = FALSE
       /\ wres = "none"
       /\ reader = NoReader
       /\ ret = [op |-> "none"]
       /\ mtx = 0
       /\ gor = <<>>

NextStream ==
    \/ /\ api = "none"
       /\ \E n \in 0..1 : \E keys \in KeyLists(n), vals \in ValueLists(n) :
              CallWrite(keys, vals)
    \/ /\ api = "none"
       /\ CallClose(Whole)
    \/ CallBuildReader
    \/ \E i \in 0..MaxKeys : CallReadIndexEntry(i)
    \/ \E key \in Keys : CallGet(key)
    \/ \E key \in Keys : CallExists(key)
    \/ \E prefix \in Keys : CallScanPrefix(prefix)
    \/ \E key \in FaultKeys, size \in ForgedSizes :
           CallGetValuePositionWithEntry(IndexEntry(key, 0, size))
    \/ \E key \in FaultKeys, size \in ForgedSizes :
           CallGetWithEntry(IndexEntry(key, 0, size))
    \/ \E key \in Keys, src \in Sources, accept \in Accepts :
           CallReadTo(key, src, accept)
    \/ \E key \in Keys : CallGetValueSize(key)

SpecStream == InitStream /\ [][NextStream]_vars

(* ------------------------------ properties ----------------------------- *)

\* The supplied pairs a writer consumes: the Writer takes every pair, Write
\* stops at the first zero-length key.
RECURSIVE UpToEmptyKey(_)
UpToEmptyKey(pairs) ==
    IF pairs = <<>> \/ Len(Head(pairs).key) = 0 THEN <<>>
    ELSE <<Head(pairs)>> \o UpToEmptyKey(Tail(pairs))

Consumed == IF api = "Write" THEN UpToEmptyKey(input) ELSE input

KeysOf(pairs) == {pairs[i].key : i \in 1..Len(pairs)}

\* No two pairs have the same key; no pair has the empty key.
Distinct(pairs) == \A i, j \in 1..Len(pairs) : i # j => pairs[i].key # pairs[j].key

NonEmptyKeys(pairs) == \A i \in 1..Len(pairs) : Len(pairs[i].key) > 0

\* The value supplied with key k.
ValueOfKey(pairs, k) == pairs[CHOOSE i \in 1..Len(pairs) : pairs[i].key = k].value

\* Byte-lexicographic order, stated on its own.
Less(a, b) ==
    \/ Len(a) < Len(b) /\ SubSeq(b, 1, Len(a)) = a
    \/ \E n \in 1..Min(Len(a), Len(b)) :
           /\ SubSeq(a, 1, n - 1) = SubSeq(b, 1, n - 1)
           /\ a[n] < b[n]

\* The number of keys of S below k: the place of k in the sorted list.
Rank(S, k) == Cardinality({o \in S : Less(o, k)})

\* The keys of S in ascending order.
Ascending(S) == [i \in 1..Cardinality(S) |-> CHOOSE k \in S : Rank(S, k) = i - 1]

\* The number of value bytes of the first n pairs.
RECURSIVE ValueBytes(_, _)
ValueBytes(pairs, n) ==
    IF n = 0 THEN 0 ELSE ValueBytes(pairs, n - 1) + Len(pairs[n].value)

\* p is a prefix of k, stated on its own.
StartsWith(k, p) == Len(p) <= Len(k) /\ SubSeq(k, 1, Len(p)) = p

\* The archive of the current state: its keys in ascending order.
ArchiveKeyList == Ascending(KeysOf(Consumed))

\* The 0-based indices of the archive's keys that start with p.
Matching(p) == {i \in 0..(Len(ArchiveKeyList) - 1) : StartsWith(ArchiveKeyList[i + 1], p)}

\* What Get and Exists must return for the lookup recorded in ret, the
\* archive holding the pairs of input.
LookupRoundTrip ==
    /\ (ret.op = "BuildReader") => (ret.err = "nil")
    /\ (ret.op = "Get") =>
           IF ret.key \in KeysOf(input)
           THEN /\ ret.value = ValueOfKey(input, ret.key)
                /\ ret.found
                /\ ret.err = "nil"
           ELSE /\ ret.value = NilBytes
                /\ ~ret.found
                /\ ret.err = "nil"
    /\ (ret.op = "Exists") =>
           /\ ret.found = (ret.key \in KeysOf(input))
           /\ ret.err = "nil"

\* C1 (batch round-trip): when Write is given distinct non-empty keys, it
\* returns nil, BuildReader on the bytes it wrote succeeds, Get(k) returns
\* (the value written for k, true, nil) and Exists(k) (true, nil) for every
\* key given, and Get returns (nil, false, nil) and Exists (false, nil) for
\* every other key.
BatchRoundTrip ==
    (api = "Write" /\ Distinct(input) /\ NonEmptyKeys(input)) =>
        /\ wres = "nil"
        /\ ret.op = "Write" => ret.err = "nil"
        /\ LookupRoundTrip

\* Three keys given out of order, and Get finding the two-byte value of the
\* first of them.
BatchRoundTripWitness ==
    /\ api = "Write" /\ Len(input) = 3
    /\ Distinct(input) /\ NonEmptyKeys(input)
    /\ Less(input[2].key, input[1].key)
    /\ Len(input[1].value) = 2
    /\ ret.op = "Get" /\ ret.key = input[1].key
    /\ ret.found /\ ret.value = input[1].value

\* C2 (progressive round-trip): after WriteValue calls with distinct
\* non-empty keys and a Close that returned nil, the sink holds the values in
\* call order, the k-th starting at the sum of the lengths of the earlier
\* ones, and the archive answers Get and Exists as in the batch case.
ProgressiveRoundTrip ==
    (api = "Writer" /\ wres = "nil" /\ Distinct(input) /\ NonEmptyKeys(input)) =>
        /\ \A k \in 1..Len(input) :
               SubSeq(out, ValueBytes(input, k - 1) + 1, ValueBytes(input, k))
                   = input[k].value
        /\ LookupRoundTrip

\* Three values written under keys out of order, the last not at offset 0,
\* and Get returning it.
ProgressiveRoundTripWitness ==
    /\ api = "Writer" /\ wres = "nil" /\ Len(input) = 3
    /\ Distinct(input) /\ NonEmptyKeys(input)
    /\ Less(input[3].key, input[1].key)
    /\ Len(input[1].value) = 2 /\ Len(input[3].value) = 2
    /\ ret.op = "Get" /\ ret.key = input[3].key
    /\ ret.found /\ ret.value = input[3].value

\* C3 (index ordering): in every archive a writer completed without error,
\* the Reader's Size is the number of pairs written, ReadIndexEntry(i)
\* succeeds for every i below it, and the keys it returns are strictly
\* increasing in byte-lexicographic order.
IndexOrdering ==
    (wres = "nil" /\ ret.op = "ReadIndexEntry") =>
        LET N == Size(reader)
            keyAt(j) == ReadIndexEntry(reader, out, j).entry.Key
        IN  /\ N = Len(Consumed)
            /\ ret.i < N =>
                   /\ ret.err = "nil"
                   /\ ret.entry.Key \in KeysOf(Consumed)
                   /\ \A j \in 0..(N - 1) :
                          /\ j < ret.i => Less(keyAt(j), ret.entry.Key)
                          /\ j > ret.i => Less(ret.entry.Key, keyAt(j))

\* The Writer was given three keys in descending order and the entry read
\* is the last of the index.
IndexOrderingWitness ==
    /\ api = "Writer" /\ wres = "nil" /\ Len(input) = 3
    /\ Less(input[2].key, input[1].key) /\ Less(input[3].key, input[2].key)
    /\ ret.op = "ReadIndexEntry" /\ ret.i = 2 /\ ret.err = "nil"
    /\ ret.entry.Key = input[1].key

\* The least and the greatest element of a non-empty set of integers.
Least(S) == CHOOSE i \in S : \A o \in S : i <= o

Greatest(S) == CHOOSE i \in S : \A o \in S : o <= i

\* C4 (exact search): SearchIndexEntryWithKey(k) returns a nil error; when k
\* is a key of the archive it returns the entry of k and the index i with
\* keys[i] = k; otherwise it returns a nil entry and the lower bound i,
\* 0 <= i <= N, with keys[i-1] < k < keys[i] wherever those exist.
ExactSearch ==
    (ret.op = "SearchIndexEntryWithKey") =>
        LET keys == ArchiveKeyList
            N == Len(keys)
            k == ret.key
            i == ret.idx
        IN  /\ ret.err = "nil"
            /\ IF k \in KeysOf(Consumed)
               THEN /\ ret.entry # NilEntry
                    /\ ret.entry.Key = k
                    /\ i \in 0..(N - 1)
                    /\ keys[i + 1] = k
               ELSE /\ ret.entry = NilEntry
                    /\ i \in 0..N
                    /\ i > 0 => Less(keys[i], k)
                    /\ i < N => Less(k, keys[i + 1])

\* An archive of five keys, and the search finding the key at index 3.
ExactSearchWitness ==
    /\ Len(input) = 5
    /\ ret.op = "SearchIndexEntryWithKey"
    /\ ret.entry # NilEntry /\ ret.idx = 3
    /\ ret.entry.Key = ret.key

\* C5 (prefix search, hit): when at least one key of the archive starts with
\* p, SearchIndexEntryWithPrefix(p, false) returns the entry and index of the
\* first such key and SearchIndexEntryWithPrefix(p, true) those of the last,
\* with a nil error; with the empty prefix these are indices 0 and N - 1.
PrefixSearchHit ==
    (ret.op = "SearchIndexEntryWithPrefix" /\ Matching(ret.prefix) # {}) =>
        LET keys == ArchiveKeyList
            N == Len(keys)
            M == Matching(ret.prefix)
        IN  /\ ret.err = "nil"
            /\ ret.entry # NilEntry
            /\ ret.idx = (IF ret.last THEN Greatest(M) ELSE Least(M))
            /\ ret.entry.Key = keys[ret.idx + 1]
            /\ Len(ret.prefix) = 0 => ret.idx = (IF ret.last THEN N - 1 ELSE 0)

\* Two keys of five start with the prefix, neither the first nor the last
\* key of the archive does, and the search returns the last of the two.
PrefixSearchHitWitness ==
    /\ ret.op = "SearchIndexEntryWithPrefix" /\ ret.last
    /\ Len(ret.prefix) > 0
    /\ Cardinality(Matching(ret.prefix)) = 2
    /\ Len(input) = 5
    /\ ret.idx = 2
    /\ ret.entry # NilEntry

\* C6 (prefix search, miss): when no key of the archive starts with the
\* non-empty prefix p, SearchIndexEntryWithPrefix(p, last) returns a nil
\* entry, a nil error and the number of keys less than p as the index, for
\* both values of last.
PrefixSearchMiss ==
    (/\ ret.op = "SearchIndexEntryWithPrefix"
     /\ Len(ret.prefix) > 0
     /\ Matching(ret.prefix) = {}) =>
        /\ ret.entry = NilEntry
        /\ ret.err = "nil"
        /\ ret.idx = Rank(KeysOf(Consumed), ret.prefix)

\* A prefix no key starts with, two keys of four below it, asked with last.
PrefixSearchMissWitness ==
    /\ ret.op = "SearchIndexEntryWithPrefix" /\ ret.last
    /\ Len(ret.prefix) > 0
    /\ Matching(ret.prefix) = {}
    /\ Len(input) = 4
    /\ ret.entry = NilEntry /\ ret.idx = 2

\* The n-th least element of a set of integers.
RECURSIVE NthLeast(_, _)
NthLeast(S, n) == IF n = 1 THEN Least(S) ELSE NthLeast(S \ {Least(S)}, n - 1)

\* C7 (prefix scan): ScanPrefixEntries, ScanPrefixKeys and ScanPrefix call
\* the callback once for each key of the archive that starts with the
\* prefix and for no other key, in ascending key order, with the entry of
\* the key and its index, the key, and the key and its own value; they
\* return nil; the empty prefix visits all N entries and a prefix nothing
\* starts with makes no call.
PrefixScan ==
    (ret.op \in {"ScanPrefixEntries", "ScanPrefixKeys", "ScanPrefix"}) =>
        LET keys == ArchiveKeyList
            M == Matching(ret.prefix)
        IN  /\ ret.err = "nil"
            /\ Len(ret.calls) = Cardinality(M)
            /\ Len(ret.prefix) = 0 => Len(ret.calls) = Len(Consumed)
            /\ \A n \in 1..Len(ret.calls) :
                   LET i == NthLeast(M, n)
                       key == keys[i + 1]
                       value == ValueOfKey(Consumed, key)
                   IN  CASE ret.op = "ScanPrefixEntries" ->
                                /\ ret.calls[n].idx = i
                                /\ ret.calls[n].entry.Key = key
                                /\ ret.calls[n].entry.Size = Len(value)
                                /\ Slice(out, ret.calls[n].entry.Offset,
                                         ret.calls[n].entry.Offset + Len(value)) = value
                          [] ret.op = "ScanPrefixKeys" -> ret.calls[n] = key
                          [] ret.op = "ScanPrefix" ->
                                ret.calls[n] = [key |-> key, value |-> value]

\* ScanPrefix on an archive of five keys visiting the two that start with
\* a non-empty prefix, two keys before them and one after.
PrefixScanWitness ==
    /\ ret.op = "ScanPrefix"
    /\ Len(ret.prefix) > 0
    /\ Len(input) = 5
    /\ Len(ret.calls) = 2
    /\ Matching(ret.prefix) = {2, 3}

\* What a writer given the pairs `pairs` must have done when two of their
\* keys are byte-equal: Write has returned an error, a Close of the Writer
\* has returned an error, and no archive was completed for a Reader.
Rejected(pairs) ==
    (~Distinct(pairs)) =>
        /\ api = "Write" => (wres # "nil" /\ ret.op = "Write" /\ ret.err # "nil")
        /\ (api = "Writer" /\ wres # "none") => wres # "nil"
        /\ (api = "Writer" /\ ret.op = "Close") => ret.err # "nil"
        /\ reader = NoReader

CloseCalled == fin \/ wres # "none"

\* C9 (writer lifecycle): once Close has been called, whatever it returned
\* (or a WriteValue has failed), the writer is Closed and stays Closed:
\* every later WriteValue and Close
\* returns an error, writes no byte to the sink, records no index entry and
\* leaves GetPos unchanged.
WriterClosedForGood ==
    [][CloseCalled =>
           /\ fin /\ fin'
           /\ ret'.op \in {"WriteValue", "Close"}
           /\ ret'.err # "nil"
           /\ out' = out
           /\ idx' = idx
           /\ pos' = pos
           /\ input' = input]_vars

\* Close failed on the sink after two values were written, and a later
\* WriteValue was refused.
WriterClosedForGoodWitness ==
    /\ wres = "sink error" /\ fin
    /\ Len(input) = 2
    /\ ret.op = "WriteValue" /\ ret.err = "writer is already closed"

\* The error a failed copy returns.
CopyError(kind) == IF kind = "source" THEN "read error" ELSE "sink error"

\* Some WriteValue's copy failed with an error other than io.EOF.
CopyFailed(pairs) == \E k \in 1..Len(pairs) : pairs[k].fault \in {"source", "sink"}

\* C10 (WriteValue failure): a WriteValue whose copy fails with an error
\* other than io.EOF, from the sink or from the value reader, returns that
\* error and leaves the writer Closed; every later WriteValue and Close
\* fails, and nothing more, so no index and no trailer, reaches the sink.
CopyFailureCloses ==
    [][/\ (Len(input') = Len(input) + 1 /\ CopyFailed(input')) =>
              /\ ret' = [op |-> "WriteValue",
                         err |-> CopyError(input'[Len(input')].fault)]
              /\ fin'
       /\ CopyFailed(input) =>
              /\ fin /\ fin'
              /\ ret'.op \in {"WriteValue", "Close"}
              /\ ret'.err # "nil"
              /\ out' = out
              /\ wres' = "none"
              /\ input' = input]_vars

\* The second WriteValue failed on the sink after one byte of its value, and
\* the Close that followed was refused with the sink holding the first value
\* and that byte only.
CopyFailureClosesWitness ==
    /\ Len(input) = 2
    /\ input[2].fault = "sink"
    /\ Len(input[1].value) = 2
    /\ Len(out) = 3
    /\ fin /\ wres = "none"
    /\ ret.op = "Close" /\ ret.err = "writer is already closed"


\* The archive of no entries.
EmptyArchive == Zeros(8)

\* C11: a Write with no keys, and a Close with no values written, emit
\* exactly the eight zero bytes of the count 0. BuildReader accepts the 0-byte
\* stream and these eight bytes with Size() = 0; on that Reader
\* ReadIndexEntry(0) fails with no entry, Exists is (false, nil) for every key
\* and ScanPrefix calls back zero times and returns nil for every prefix.
EmptyArchiveReadable ==
    /\ (wres = "nil" /\ Consumed = <<>>) => out = EmptyArchive
    /\ (out \in {<<>>, EmptyArchive} /\ ret.op = "BuildReader")
           => ret.err = "nil" /\ reader # NoReader /\ Size(reader) = 0
    /\ (out \in {<<>>, EmptyArchive} /\ ret.op = "ReadIndexEntry" /\ ret.i = 0)
           => ret.err # "nil" /\ ret.entry = NilEntry
    /\ (out \in {<<>>, EmptyArchive} /\ ret.op = "Exists")
           => ~ret.found /\ ret.err = "nil"
    /\ (out \in {<<>>, EmptyArchive} /\ ret.op = "ScanPrefix")
           => ret.calls = <<>> /\ ret.err = "nil"

\* A Reader of the 0-byte stream has scanned with the empty prefix.
EmptyArchiveReadableWitness ==
    /\ out = <<>>
    /\ reader # NoReader
    /\ ret.op = "ScanPrefix"
    /\ ret.prefix = <<>>
    /\ ret.calls = <<>>


\* The orders in which n pairs can be supplied.
Orders(n) == {f \in [1..n -> 1..n] : \A i, j \in 1..n : f[i] = f[j] => i = j}

\* The pairs supplied in the order f.
Reorder(pairs, f) == [i \in 1..Len(pairs) |-> pairs[f[i]]]

RECURSIVE Concat(_, _)
\* The values of the first n pairs, one after the other.
Concat(pairs, n) ==
    IF n = 0 THEN <<>> ELSE Concat(pairs, n - 1) \o pairs[n].value

\* The archive the writer variant in use produces for the pairs: Write through
\* WriteIterator; the Writer by copying each value, recording its entry, and
\* writing the index at Close.
ArchiveOf(pairs) ==
    IF api = "Write"
    THEN WriteIterator([i \in 1..Len(pairs) |-> pairs[i].key],
                       [i \in 1..Len(pairs) |-> pairs[i].value], Completes).bytes
    ELSE Concat(pairs, Len(pairs))
         \o WriteIndex([i \in 1..Len(pairs) |->
                            IndexEntry(pairs[i].key, ValueBytes(pairs, i - 1),
                                       Len(pairs[i].value))],
                       ValueBytes(pairs, Len(pairs)), Whole).bytes

\* A write of the pairs in Consumed has just completed with an archive.
Archived == wres = "nil" /\ ret.op \in {"Write", "Close"}

\* What a Reader of the archive reports: the count, the key at every index
\* and the result of Get for every key.
Content(archive) ==
    With(BuildReader(archive, Len(archive)), LAMBDA r :
        [err |-> r.err,
         size |-> Size(r),
         keys |-> [i \in 0..(Size(r) - 1) |-> ReadIndexEntry(r, archive, i).entry.Key],
         values |-> [k \in Keys |-> Get(r, archive, k)]])

\* The position in the supplied pairs of the pair with the key k.
PairOf(pairs, k) == CHOOSE j \in 1..Len(pairs) : pairs[j].key = k

\* The pairs, which have distinct keys, supplied in the ascending byte order
\* of their keys.
InKeyOrder(pairs) ==
    [i \in 1..Len(pairs) |-> pairs[PairOf(pairs, Ascending(KeysOf(pairs))[i])]]

\* C12: the archive written for a set of pairs holds the same content
\* whatever the order the pairs were supplied in: a Reader reports the same
\* count, the same key at every index and the same value for every key as it
\* does on the archive of the same pairs supplied in key order, and so any
\* two orders agree; and the value area is the values in the order supplied.
OrderIndependentContent ==
    Archived =>
        /\ SubSeq(out, 1, ValueBytes(Consumed, Len(Consumed)))
               = Concat(Consumed, Len(Consumed))
        /\ Content(ArchiveOf(InKeyOrder(Consumed))) = Content(out)

\* Three pairs were written through a Writer, and another order of the same
\* pairs gives other bytes.
OrderIndependentContentWitness ==
    /\ Archived
    /\ api = "Writer"
    /\ Len(Consumed) = 3
    /\ \E f \in Orders(3) : ArchiveOf(Reorder(Consumed, f)) # out

\* C12 as stated: every order of the same pairs gives the same bytes.
OrderIndependentBytes ==
    Archived =>
        \A f \in Orders(Len(Consumed)) : ArchiveOf(Reorder(Consumed, f)) = out


\* The goroutines inside WriteValue's critical section.
Inside == {g \in Goroutines : gor[g].pc \in {"locked", "copy", "return"}}

\* C13: WriteValue calls of several goroutines on one Writer are serialized.
\* At most one call is past Lock; the bytes a call has copied so far are
\* contiguous at the end of the sink; the recorded entries tile [0, pos) in
\* the order recorded, so their ranges are disjoint and leave no gap; and
\* each entry's range holds exactly the value passed with its key. A Close
\* between the calls takes the same mutex and ends the recording.
SerializedWrites ==
    /\ Cardinality(Inside) <= 1
    /\ \A g \in Goroutines :
           gor[g].pc = "copy" =>
               /\ gor[g].offset = pos
               /\ Len(out) = pos + gor[g].nw
               /\ SubSeq(out, pos + 1, Len(out)) = SubSeq(gor[g].value, 1, gor[g].nw)
    /\ (~fin /\ \A g \in Goroutines : gor[g].pc # "copy") => Len(out) = pos
    /\ \A i \in 1..Len(idx) :
           /\ idx[i].Offset = ValueBytes(input, i - 1)
           /\ idx[i].Key = input[i].key
           /\ SubSeq(out, idx[i].Offset + 1, idx[i].Offset + idx[i].Size)
                  = input[i].value
    /\ ~fin => pos = ValueBytes(input, Len(idx))

\* Every goroutine has returned, the last one's entry was recorded first, and
\* two values of two bytes lie next to each other.
SerializedWritesWitness ==
    /\ \A g \in Goroutines : gor[g].pc = "done" /\ gor[g].err = "nil"
    /\ Len(idx) = MaxGoroutines
    /\ idx[1].Key = <<MaxGoroutines>>
    /\ idx[1].Size = 2
    /\ idx[2].Size = 2


\* The count field of the stream: its last eight bytes.
CountField == SubSeq(out, Len(out) - 7, Len(out))

\* The count field holds 2^61 or more: 8 times the count is 2^64 or more.
CountOverflows == CountField[8] >= 32

\* 8 times the count exceeds fileSize - 8. A count of 2^24 or more exceeds it
\* for every stream here; a smaller one is computed.
CountExceedsFile ==
    \/ \E k \in 4..8 : CountField[k] # 0
    \/ 8 * UintLE(SubSeq(CountField, 1, 3)) > Len(out) - 8

\* C14: BuildReader returns an error for a stream of 1 to 7 bytes, for a
\* count whose product with 8 overflows 64 bits and for a count with
\* 8 * count > fileSize - 8; when it succeeds on a stream with a count field,
\* the positions table starts at fileSize - 8 - 8 * count, which lies in
\* 0..fileSize - 8.
MalformedTrailersRejected ==
    ret.op = "BuildReader" =>
        /\ (0 < Len(out) /\ Len(out) < 8) => ret.err # "nil"
        /\ (Len(out) >= 8 /\ (CountOverflows \/ CountExceedsFile)) => ret.err # "nil"
        /\ ret.err # "nil" => reader = NoReader
        /\ (Len(out) >= 8 /\ ret.err = "nil") =>
               /\ reader.indexEntryCount = UintLE(SubSeq(CountField, 1, 3))
               /\ reader.indexEntryIndexesPos
                      = Len(out) - 8 - 8 * reader.indexEntryCount
               /\ 0 <= reader.indexEntryIndexesPos
               /\ reader.indexEntryIndexesPos <= Len(out) - 8

\* BuildReader has refused the count 2^61 + 1 on a stream that the wrapped
\* product 8 would fit.
MalformedTrailersRejectedWitness ==
    /\ ret.op = "BuildReader"
    /\ ret.err = "index entry count too large, would overflow multiplication"
    /\ Len(out) = MaxBody + 8
    /\ CountField = <<1, 0, 0, 0, 0, 0, 0, 32>>


\* The index of the stream holds an entry for the key that declares a size
\* above maxValueSize.
Oversized(key) ==
    \E i \in 0..(Size(reader) - 1) :
        With(ReadIndexEntry(reader, out, i), LAMBDA e :
            e.err = "nil" /\ e.entry.Key = key /\ e.entry.Size > maxValueSize)

\* C15: for an index entry that declares a size above maxValueSize,
\* GetValuePositionWithEntry, GetWithEntry, Get, ReadTo and GetValueSize
\* return the size error; none returns a value, and ReadTo issues no read of
\* the value and passes nothing to the sink.
OversizedValuesRejected ==
    /\ (ret.op = "GetValuePositionWithEntry" /\ ret.entry.Size > maxValueSize)
           => ret.err = "value size > max size" /\ ret.idx = -1 /\ ret.length = -1
    /\ (ret.op = "GetWithEntry" /\ ret.entry.Size > maxValueSize)
           => ret.err = "value size > max size" /\ ret.value = NilBytes
    /\ (ret.op = "Get" /\ Oversized(ret.key))
           => ret.err = "value size > max size" /\ ret.value = NilBytes
    /\ (ret.op = "ReadTo" /\ Oversized(ret.key))
           => /\ ret.err = "value size > max size"
              /\ ret.n = 0
              /\ ret.sunk = <<>>
              /\ ret.reads = <<>>
    /\ (ret.op = "GetValueSize" /\ Oversized(ret.key))
           => ret.err = "value size > max size" /\ ret.size = -1

\* ReadTo was called for the second key of an index whose entry for it
\* declares a size above maxValueSize.
OversizedValuesRejectedWitness ==
    /\ ret.op = "ReadTo"
    /\ ret.key = <<2>>
    /\ Oversized(<<2>>)
    /\ ret.err = "value size > max size"


\* ReadTo has returned on an archive a writer completed from pairs with
\* distinct non-empty keys.
ReadToReturned ==
    /\ ret.op = "ReadTo"
    /\ api \in {"Write", "Writer"}
    /\ Distinct(Consumed)
    /\ NonEmptyKeys(Consumed)

\* C16: ReadTo of a present key passes exactly the bytes of its value to the
\* sink, in order and once each, and returns (len(value), true, nil), also
\* when a ReadAt of the source returns fewer bytes than asked for and when the
\* sink takes a Write in part; ReadTo of an absent key passes nothing and
\* returns (0, false, nil).
ReadToStreamsValue ==
    ReadToReturned =>
        IF ret.key \in KeysOf(Consumed)
        THEN /\ ret.sunk = ValueOfKey(Consumed, ret.key)
             /\ ret.n = Len(ValueOfKey(Consumed, ret.key))
             /\ ret.found
             /\ ret.err = "nil"
        ELSE /\ ret.sunk = <<>>
             /\ ret.n = 0
             /\ ~ret.found
             /\ ret.err = "nil"

\* ReadTo of a present key with a value of two bytes has returned after a
\* ReadAt that gave one byte of the two asked for.
ReadToStreamsValueWitness ==
    /\ ReadToReturned
    /\ ret.key \in KeysOf(Consumed)
    /\ Len(ValueOfKey(Consumed, ret.key)) = 2
    /\ ret.src.kind = "short"
    /\ ret.reads # <<>>


\* C17: on an archive whose index entries carry no size, as the first
\* revision's Write produced them, Get of a written key returns the full
\* value: the bytes from the entry's offset to the next entry's offset, or to
\* the start of the index entries for the last one.
LegacyValuesReadable ==
    (api = "legacy" /\ ret.op = "Get" /\ ret.key \in KeysOf(input))
        => /\ ret.err = "nil"
           /\ ret.found
           /\ ret.value = ValueOfKey(input, ret.key)

\* Get has returned for the second of two keys of such an archive, both
\* written with values that are not empty.
LegacyValuesReadableWitness ==
    /\ api = "legacy"
    /\ ret.op = "Get"
    /\ Len(input) = 2
    /\ ret.key = input[2].key
    /\ input[1].value # <<>>
    /\ input[2].value # <<>>


\* C18: GetValuePositionWithEntry returns an error for every entry whose
\* offset + size exceeds the start of the index entries, indexEntryListPos,
\* so the range it returns never overlaps the index entries, the positions
\* table or the count.
CrossReferenceChecked ==
    ret.op = "GetValuePositionWithEntry" =>
        /\ ret.entry.Offset + ret.entry.Size > reader.indexEntryListPos
               => ret.err # "nil"
        /\ ret.err = "nil" => ret.idx + ret.length <= reader.indexEntryListPos

\* GetValuePositionWithEntry has returned a range for an entry that ends past
\* the first index entry of a stream with value bytes and an index.
CrossReferenceCheckedWitness ==
    /\ ret.op = "GetValuePositionWithEntry"
    /\ reader.indexEntryListPos = Len(ForgedBody)
    /\ SubSeq(out, 1, Len(ForgedBody)) = ForgedBody
    /\ ret.entry.Offset + ret.entry.Size > reader.indexEntryListPos
    /\ ret.err = "nil"


\* C19: ReadIndexEntry(i) with i at or past the count of entries, i = count
\* included, returns the out-of-bounds error and no entry, and would return
\* the same from a source on which every read fails: it reads nothing. With
\* i below the count, on an archive a writer completed, it returns the entry
\* of the key that is i-th in byte order, with the offset and the size of
\* that key's value.
OutOfBoundsIndex ==
    (wres = "nil" /\ ret.op = "ReadIndexEntry") =>
        IF ret.i >= Size(reader)
        THEN /\ ret.err = "out-of-bounds read of index entry"
             /\ ret.entry = NilEntry
             /\ ReadIndexEntry(reader, <<>>, ret.i).err = ret.err
        ELSE LET k == ArchiveKeyList[ret.i + 1]
                 j == PairOf(Consumed, k)
             IN  /\ ret.err = "nil"
                 /\ ret.entry = IndexEntry(k, ValueBytes(Consumed, j - 1),
                                           Len(Consumed[j].value))

\* The entry at the index equal to the count of a three-entry archive was
\* asked for.
OutOfBoundsIndexWitness ==
    /\ wres = "nil"
    /\ ret.op = "ReadIndexEntry"
    /\ Size(reader) = 3
    /\ ret.i = 3
    /\ ret.entry = NilEntry


RECURSIVE SumOfSizes(_)
\* The sizes the first n entries of the archive's index declare, added up.
SumOfSizes(n) ==
    IF n = 0 THEN 0
    ELSE SumOfSizes(n - 1) + ReadIndexEntry(reader, out, n - 1).entry.Size

\* C20: on an archive a writer completed, the start of the index entries
\* that BuildReader derives, indexEntryListPos, is the number of value bytes
\* the writer wrote; every entry has offset + size at most that, and the
\* sizes of all entries add up to it.
SizeConsistency ==
    (wres = "nil" /\ ret.op = "BuildReader") =>
        /\ ret.err = "nil"
        /\ Size(reader) = Len(Consumed)
        /\ reader.indexEntryListPos = ValueBytes(Consumed, Len(Consumed))
        /\ \A i \in 0..(Size(reader) - 1) :
               With(ReadIndexEntry(reader, out, i), LAMBDA e :
                   /\ e.err = "nil"
                   /\ e.entry.Offset + e.entry.Size <= reader.indexEntryListPos)
        /\ SumOfSizes(Size(reader)) = reader.indexEntryListPos

\* A Reader was built on an archive of three values, six bytes in all, that
\* a Writer completed.
SizeConsistencyWitness ==
    /\ wres = "nil"
    /\ ret.op = "BuildReader"
    /\ api = "Writer"
    /\ Size(reader) = 3
    /\ reader.indexEntryListPos = 6

(* ------------------------ the shape of an archive ---------------------- *)

\* The index entries a writer records for the pairs: the i-th value starts
\* where the values before it end.
EntriesOf(pairs) ==
    [i \in 1..Len(pairs) |->
        IndexEntry(pairs[i].key, ValueBytes(pairs, i - 1), Len(pairs[i].value))]

\* The entry at index position i (1-based) of the archive of the pairs, which
\* have distinct keys: the entry of the key of rank i - 1.
EntryAt(pairs, i) ==
    EntriesOf(pairs)[PairOf(pairs, Ascending(KeysOf(pairs))[i])]

\* The bytes entry i takes in the index: its encoding and the varint of the
\* length of the encoding that follows it.
FramedSize(pairs, i) ==
    SizeVT(EntryAt(pairs, i)) + SizeOfVarint(SizeVT(EntryAt(pairs, i)))

RECURSIVE FramedSizes(_, _)
\* The bytes the first n entries take in the index.
FramedSizes(pairs, n) ==
    IF n = 0 THEN 0 ELSE FramedSizes(pairs, n - 1) + FramedSize(pairs, n)

\* The eight bytes of the archive that start at byte p (0-based).
FieldAt(p) == SubSeq(out, p + 1, p + 8)

\* The eight bytes are the little-endian form of a number below 256.
SmallField(field, v) == field = <<v, 0, 0, 0, 0, 0, 0, 0>>

\* C21: an archive a writer completes with N entries ends with the eight
\* little-endian bytes of N, preceded by exactly N little-endian slots of
\* eight bytes, the i-th the position at which the encoding of entry i ends,
\* and its length is the value bytes plus the framed sizes of the entries
\* plus 8 * (N + 1).
TrailerAndTableShape ==
    Archived =>
        LET N == Len(Consumed)
            values == ValueBytes(Consumed, N)
            table == values + FramedSizes(Consumed, N)
        IN  /\ Len(out) = values + FramedSizes(Consumed, N) + 8 * (N + 1)
            /\ SmallField(FieldAt(Len(out) - 8), N)
            /\ \A i \in 1..N :
                   SmallField(FieldAt(table + 8 * (i - 1)),
                              values + FramedSizes(Consumed, i - 1)
                                  + SizeVT(EntryAt(Consumed, i)))

\* A Writer completed an archive of three entries, one of them with an empty
\* value.
TrailerAndTableShapeWitness ==
    /\ Archived
    /\ api = "Writer"
    /\ Len(Consumed) = 3
    /\ \E i \in 1..3 : Consumed[i].value = <<>>
    /\ \E i \in 1..3 : Consumed[i].value # <<>>

(* ------------------------- the cost of a search ------------------------ *)

RECURSIVE Log2Floor(_)
\* floor(log2(n)) for n >= 1.
Log2Floor(n) == IF n <= 1 THEN 0 ELSE 1 + Log2Floor(n \div 2)

\* The number of indexes in the interval of step k of the search that
\* returned: [i, j) in the exact search, [i, j] in the prefix search.
Width(k) ==
    ret.steps[k].j - ret.steps[k].i
        + (IF ret.op = "SearchIndexEntryWithPrefix" THEN 1 ELSE 0)

\* C22: SearchIndexEntryWithKey and SearchIndexEntryWithPrefix return after
\* reading at most floor(log2(N)) + 1 index entries of an archive of N >= 1
\* entries and none of an empty archive; the entry read at each step of the
\* loop lies inside the interval of the step, and the interval of the next
\* step is strictly smaller.
LogarithmicLookup ==
    ret.op \in {"SearchIndexEntryWithKey", "SearchIndexEntryWithPrefix"} =>
        /\ Len(ret.reads) <= (IF Size(reader) = 0 THEN 0
                              ELSE Log2Floor(Size(reader)) + 1)
        /\ \A k \in 1..Len(ret.steps) :
               /\ Width(k) >= 1
               /\ ret.steps[k].i <= ret.reads[k]
               /\ ret.reads[k] < ret.steps[k].i + Width(k)
        /\ \A k \in 1..(Len(ret.steps) - 1) : Width(k + 1) < Width(k)

\* A search read floor(log2(N)) + 1 entries of an archive of at least four
\* entries, one at every step of its loop, and found none.
LogarithmicLookupWitness ==
    /\ ret.op \in {"SearchIndexEntryWithKey", "SearchIndexEntryWithPrefix"}
    /\ Size(reader) >= 4
    /\ Len(ret.reads) = Log2Floor(Size(reader)) + 1
    /\ Len(ret.steps) = Len(ret.reads)
    /\ ret.entry = NilEntry

(* --------------------------- value offsets ----------------------------- *)

\* A Reader has been built on an archive a writer completed.
ReaderBuilt == wres = "nil" /\ ret.op = "BuildReader" /\ ret.err = "nil"

\* The entry at index i (0-based) of the archive.
IndexedEntry(i) == ReadIndexEntry(reader, out, i).entry

\* The keys of the pairs were supplied in ascending byte order.
SuppliedAscending(pairs) ==
    \A a, b \in 1..Len(pairs) : a < b => Less(pairs[a].key, pairs[b].key)

Slot(i) ==
    Uint64(FieldAt(ValueBytes(Consumed, Len(Consumed))
                       + FramedSizes(Consumed, Len(Consumed)) + 8 * i))

\* The position at which the encoding of entry i (0-based) starts.
EntryStart(i) == ValueBytes(Consumed, Len(Consumed)) + FramedSizes(Consumed, i)

\* The length of the encoding of entry i (0-based).
EntryLength(i) == SizeVT(EntryAt(Consumed, i + 1))

\* C24 as stated: slot i holds the position that follows the framing varint
\* of entry i, and the varint is in the bytes that end at that position.
SlotAfterVarint ==
    Archived =>
        \A i \in 0..(Len(Consumed) - 1) :
            /\ Slot(i) = EntryStart(i + 1)
            /\ ConsumeVarint(Slice(out, Slot(i) - SizeOfVarint(EntryLength(i)),
                                   Slot(i))).v = EntryLength(i)

\* C24: slot i written by WriteIndex holds the position at which the encoding
\* of entry i ends, which is the position of the first byte of its framing
\* varint; the reader decodes the length from the bytes that start at that
\* position, takes the encoding from the bytes that end there, and so
\* ReadIndexEntry(i) returns the entry the writer recorded.
SlotAtVarint ==
    /\ Archived =>
           \A i \in 0..(Len(Consumed) - 1) :
               With(<<Slot(i), EntryAt(Consumed, i + 1)>>, LAMBDA se :
                   With(SizeVT(se[2]), LAMBDA length :
                       /\ se[1] = EntryStart(i) + length
                       /\ ConsumeVarint(Slice(out, se[1], se[1] + 10)) =
                              [v |-> length, n |-> SizeOfVarint(length)]
                       /\ Slice(out, se[1] - length, se[1]) =
                              MarshalToSizedBufferVT(se[2], length)))
    /\ ReaderBuilt =>
           /\ Size(reader) = Len(Consumed)
           /\ \A i \in 0..(Len(Consumed) - 1) :
                  ReadIndexEntry(reader, out, i) =
                      [entry |-> EntryAt(Consumed, i + 1), err |-> "nil"]

\* A Reader was built on an archive of three entries with values.
SlotAtVarintWitness ==
    /\ ReaderBuilt
    /\ Size(reader) = 3
    /\ Slot(0) < Slot(1)
    /\ Slot(1) < Slot(2)
    /\ IndexedEntry(2).Size > 0

(* ------------------- a duplicate found while writing ------------------- *)

\* Write or Writer.Close has just returned the duplicate-key error.
DuplicateReturned ==
    /\ ret.op \in {"Write", "Close"}
    /\ ret.err = "duplicate key while writing"

\* The least key supplied more than once.
LeastDuplicate(pairs) ==
    CHOOSE k \in KeysOf(pairs) :
        /\ \E a, b \in 1..Len(pairs) : a # b /\ pairs[a].key = k /\ pairs[b].key = k
        /\ \A o \in KeysOf(pairs) :
               (\E a, b \in 1..Len(pairs) : a # b /\ pairs[a].key = o /\ pairs[b].key = o)
                   => (o = k \/ Less(k, o))

\* The first pair supplied with the key k.
FirstPairOf(pairs, k) ==
    CHOOSE j \in 1..Len(pairs) :
        pairs[j].key = k /\ \A a \in 1..(j - 1) : pairs[a].key # k

\* The keys whose entries sort before the second entry of the least
\* duplicate: the keys up to it.
KeysUpToDuplicate(pairs) ==
    {k \in KeysOf(pairs) : k = LeastDuplicate(pairs) \/ Less(k, LeastDuplicate(pairs))}

RECURSIVE FramedEntries(_, _, _)
\* The encodings of the entries of the first pairs with the first n keys of
\* the list, each followed by the varint of its length.
FramedEntries(pairs, keys, n) ==
    IF n = 0 THEN <<>>
    ELSE With(EntriesOf(pairs)[FirstPairOf(pairs, keys[n])], LAMBDA e :
             FramedEntries(pairs, keys, n - 1)
                 \o MarshalToSizedBufferVT(e, SizeVT(e))
                 \o AppendVarint(SizeVT(e)))

\* C25 as stated: when two equal keys are given, the call fails with the
\* sink holding only the value bytes, and Close has counted no index byte.
DuplicateBeforeIndex ==
    DuplicateReturned =>
        /\ out = Concat(Consumed, Len(Consumed))
        /\ api = "Writer" => pos = ValueBytes(Consumed, Len(Consumed))

\* C25: when Write or Writer.Close is given two equal keys, the duplicate is
\* detected after sorting, inside the loop that writes the entries: the call
\* fails with the sink holding the value bytes followed by the framed entries
\* of the keys up to the least duplicated key, one each, and no position
\* table or trailer; the count WriteIndex returns, which Close adds to the
\* position, is the number of those index bytes and is not 0.
DuplicateDuringIndex ==
    DuplicateReturned =>
        With(FramedEntries(Consumed, Ascending(KeysUpToDuplicate(Consumed)),
                           Cardinality(KeysUpToDuplicate(Consumed))), LAMBDA written :
            /\ ~Distinct(Consumed)
            /\ out = Concat(Consumed, Len(Consumed)) \o written
            /\ Len(written) > 0
            /\ api = "Writer" =>
                   /\ pos = ValueBytes(Consumed, Len(Consumed)) + Len(written)
                   /\ fin)

\* Close of a Writer given the keys 1, 2, 2 failed after the entries of key 1
\* and of the first key 2 were written.
DuplicateDuringIndexWitness ==
    /\ DuplicateReturned
    /\ api = "Writer"
    /\ Len(Consumed) = 3
    /\ Cardinality(KeysUpToDuplicate(Consumed)) = 2
    /\ pos > ValueBytes(Consumed, Len(Consumed))

(* ------------------ sinks that take a part of a Write ------------------ *)

\* Close has just written the index to the sink, after values that were all
\* copied whole.
IndexWritten ==
    /\ ret.op = "Close"
    /\ ret.err # "writer is already closed"
    /\ \A k \in 1..Len(input) : input[k].fault = "none"

NearLimit == 6

\* A key of n bytes.
LongKey(n) == [i \in 1..n |-> 7]

\* Keys whose entries are around maxIndexEntrySize bytes long: the entry of a
\* key of n bytes and an empty value has n + 3 bytes, and n + 5 with a value
\* of two bytes.
LimitKeys == {LongKey(maxIndexEntrySize - d) : d \in 2..NearLimit}

NextLimits ==
    \/ /\ api = "none"
       /\ \E key \in LimitKeys, value \in Values(1) : CallWrite(<<key>>, <<value>>)
    \/ /\ input = <<>>
       /\ \E key \in LimitKeys, value \in Values(1) :
              CallWriteValue(key, value, NoCopyFault(value))
    \/ /\ input # <<>>
       /\ CallClose(Whole)
    \/ CallBuildReader
    \/ CallReadIndexEntry(0)
    \/ \E key \in LimitKeys : CallGet(key)

SpecLimits == Init /\ [][NextLimits]_vars

\* C27 as stated: in an archive a writer completed without error every index
\* entry and every value is within the Reader's limits, so that BuildReader,
\* ReadIndexEntry at every index and Get of every written key succeed.
WriterRespectsReaderLimits ==
    (wres = "nil" /\ ret.op = "BuildReader") =>
        /\ ret.err = "nil"
        /\ \A i \in 0..(Len(Consumed) - 1) :
               /\ SizeVT(EntryAt(Consumed, i + 1)) <= maxIndexEntrySize
               /\ EntryAt(Consumed, i + 1).Size <= maxValueSize
               /\ ReadIndexEntry(reader, out, i).err = "nil"
        /\ \A k \in 1..Len(Consumed) :
               With(Get(reader, out, Consumed[k].key), LAMBDA g :
                   g.found /\ g.err = "nil")

\* A writer completed an archive whose one entry is longer than
\* maxIndexEntrySize, and BuildReader was called on it.
WriterRespectsReaderLimitsWitness ==
    /\ wres = "nil"
    /\ ret.op = "BuildReader"
    /\ ret.err = "invalid index entry size"
    /\ Len(Consumed) = 1
    /\ SizeVT(EntryAt(Consumed, 1)) > maxIndexEntrySize

(* -------------------- a batch write that is cut short ------------------ *)

\* The number of keys the loop of WriteIterator takes from the iterator
\* before a zero-length key or the end of the keys.
Taken == Len(UpToEmptyKey(input))

\* The batch write that returned was cut short by its callback: the callback
\* fails at a call that was made.
CallbackFailed ==
    /\ ret.op = "WriteIterator"
    /\ ret.fault.at \in 1..Taken

\* The batch write that returned was cut short by its iterator: it returned
\* every key, none of them empty, and then an error other than io.EOF.
IteratorFailed ==
    /\ ret.op = "WriteIterator"
    /\ ~CallbackFailed
    /\ ret.fault.end = "error"
    /\ Taken = Len(input)

\* C28: when the value callback or the key iterator returns an error other
\* than io.EOF, Write / WriteIterator returns exactly that error, has called
\* the callback for the keys before the failure and for none after it, and
\* the sink holds the value bytes written until then and no index entry,
\* position table or trailer.
BatchFailsFast ==
    /\ CallbackFailed =>
           /\ ret.err = "callback error"
           /\ ret.calls = [i \in 1..ret.fault.at |-> input[i].key]
           /\ out = Concat(input, ret.fault.at - 1)
                        \o SubSeq(input[ret.fault.at].value, 1, ret.fault.wrote)
    /\ IteratorFailed =>
           /\ ret.err = "iterator error"
           /\ ret.calls = [i \in 1..Len(input) |-> input[i].key]
           /\ out = Concat(input, Len(input))

\* The callback failed at the first of two keys, after one byte of the
\* value.
BatchFailsFastWitness ==
    /\ CallbackFailed
    /\ Len(input) = 2
    /\ ret.fault.at = 1
    /\ ret.fault.wrote = 1
    /\ Len(out) = 1

(* ------------------------- the empty key ------------------------------- *)

\* The keys of the pairs, in the order supplied.
KeyList(pairs) == [i \in 1..Len(pairs) |-> pairs[i].key]

\* The values of the pairs, in the order supplied.
ValueList(pairs) == [i \in 1..Len(pairs) |-> pairs[i].value]

GetPosTracksWritten ==
    ret.op = "GetPos" =>
        /\ ret.pos = ret.written
        /\ ~ret.closed => ret.pos = ret.sizes

\* GetPos() returned while a goroutine inside WriteValue had copied a part of
\* its value to the sink.
GetPosTracksWrittenWitness ==
    /\ ret.op = "GetPos"
    /\ ~ret.closed
    /\ \E g \in Goroutines : gor[g].pc = "copy" /\ gor[g].nw = 1
    /\ ret.pos = ret.sizes
    /\ ret.pos < ret.written

\* What holds of GetPos(): before Close it returns the sum of the sizes of
\* the entries recorded; the bytes in the sink are that many and those the
\* WriteValue in progress has copied, so it returns the number of bytes in
\* the sink whenever no goroutine is inside the copy, and after Close the
\* length of the archive.
GetPosTracksRecorded ==
    ret.op = "GetPos" =>
        /\ ~ret.closed => ret.pos = ret.sizes
        /\ ret.pos + ret.copied = ret.written
        /\ ret.closed => ret.copied = 0

\* With one goroutine using the Writer: until Close is called GetPos() is the
\* number of bytes in the sink and the sum of the sizes of the entries
\* recorded, also after a WriteValue whose copy failed part-way; after a
\* Close that returned nil it is the length of the archive.
GetPosSequential ==
    api = "Writer" =>
        /\ wres = "none" => (GetPos = Len(out) /\ GetPos = SizesOf(idx))
        /\ wres = "nil" => GetPos = Len(out)

====
